---- MODULE Spec2Model ----
(***************************************************************************)
(* Dengo backend: hybrid prediction and resilient data sourcing.           *)
(*                                                                         *)
(* The module holds one state machine per component of the backend:        *)
(*   SpecData      DataService.get_historical_data (cache, API, CSV)       *)
(*   SpecDataLive  the same under fair scheduling of its awaited steps     *)
(*   SpecPredict   PredictionService.predict and its heuristic fallback    *)
(*   SpecRisk      PredictionService._classify_risk_level on its own       *)
(*   SpecForecast  the multi-week loop of POST /predictions/predict        *)
(*   SpecWeather   WeatherService.get_current_weather                      *)
(*   SpecCache     CacheService (dashboard entries in Redis)               *)
(*   SpecDashboard GET /dashboard: cache, weather, prediction, history     *)
(*   SpecClimate   GET /dashboard over the temperature bands               *)
(*   SpecLoad      concurrent first uses of MLService and DataService      *)
(*   SpecRace      concurrent requests that miss the same cache key        *)
(*   SpecFaults    the cache operations in every connection state          *)
(*   SpecInfo      InfoDengueService.get_historical_data                   *)
(* Each specification moves only the variables of its component (and      *)
(* SpecWeather those of the Redis it shares with CacheService,            *)
(* SpecDashboard those of the services the handler calls); the other      *)
(* variables stay at their idle values.                                    *)
(*                                                                         *)
(* Numbers: timestamps are integers (epoch milliseconds in the source,     *)
(* pd.to_datetime keeps their order); temperatures are tenths of a degree; *)
(* multipliers are tenths; confidences are thousandths.                    *)
(***************************************************************************)
EXTENDS Integers, Sequences, FiniteSets, TLC

(***************************************************************************)
(* Bounds of the model.                                                    *)
(***************************************************************************)
MaxRows == 2          \* rows in the CSV file and in an API answer

(***************************************************************************)
(* Program constants.                                                      *)
(***************************************************************************)
LOOKBACK_WEEKS == 4
CACHE_TTL == 3600
CACHE_KEY_PREFIX == "dengo:data:"

NoValue == [none |-> TRUE]

Min(a, b) == IF a <= b THEN a ELSE b
Max(a, b) == IF a >= b THEN a ELSE b

(***************************************************************************)
(* DataService                                                             *)
(***************************************************************************)
VARIABLES
    csvFile,        \* rows of DATASET_PARA_IA.csv on disk, in file order
    csvGeoColumn,   \* name of the geocode column of the CSV ("none": absent)
    redis_client,   \* TRUE when DataService was built with a Redis client
    dataStore,      \* Redis contents: cache key -> entry or NoValue
    dataset_cache,  \* memoised result of _load_dataset, NoValue before
    pc,             \* position of the running get_historical_data call
    geocode,        \* its geocode argument (string of digits)
    weeks,          \* its weeks argument
    pending,        \* the window on its way to _set_cache
    outcome,        \* what the call returned or raised
    tierLog,        \* the tiers the call has gone through, in order
    apiCalls,       \* HTTP requests sent by the running call
    setCalls        \* _set_cache calls of the running call: key and frame

dataVars == <<csvFile, csvGeoColumn, redis_client, dataStore, dataset_cache,
              pc, geocode, weeks, pending, outcome, tierLog, apiCalls,
              setCalls>>

\* Geocodes are 7-digit strings; a string is modelled as its digits.
GeoCuritiba == <<4, 1, 0, 6, 9, 0, 2>>
GeoLondrina == <<4, 1, 1, 3, 7, 0, 0>>
Geocodes == {GeoCuritiba, GeoLondrina}

\* int(geocode)
RECURSIVE IntOf(_)
IntOf(digits) ==
    IF digits = <<>> THEN 0
    ELSE 10 * IntOf(SubSeq(digits, 1, Len(digits) - 1)) + digits[Len(digits)]

Dates == {1, 2}
WeeksValues == {2, LOOKBACK_WEEKS}
GeoColumns == {"geocodigo", "municipio_geocodigo", "none"}

CsvRow == [geo : {IntOf(g) : g \in Geocodes}, data_iniSE : Dates]
ApiRow == [data_iniSE : Dates]

SeqsUpTo(S, n) == UNION {[1..k -> S] : k \in 0..n}

\* f"{CACHE_KEY_PREFIX}{geocode}:w{weeks}"
CacheKey(g, w) == <<CACHE_KEY_PREFIX, g, ":w", w>>
CacheKeys == {CacheKey(g, w) : g \in Geocodes, w \in WeeksValues}

\* df.to_pickle / pd.read_pickle
ToPickle(df) == <<"pickle", df>>
ReadPickle(bytes) == bytes[2]

\* DataFrame.sort_values("data_iniSE"): ascending, ties keep their order
RECURSIVE InsertByDate(_, _)
InsertByDate(r, s) ==
    IF s = <<>> THEN <<r>>
    ELSE IF s[Len(s)].data_iniSE <= r.data_iniSE THEN Append(s, r)
    ELSE Append(InsertByDate(r, SubSeq(s, 1, Len(s) - 1)), s[Len(s)])

\* mutant: the frame is left in the order it came in
SortValues_Unsorted(df) == df

RECURSIVE SortValues(_)
SortValues(df) ==
    IF df = <<>> THEN <<>>
    ELSE InsertByDate(df[Len(df)], SortValues(SubSeq(df, 1, Len(df) - 1)))

\* DataFrame.tail(n) for n >= 0
Tail_(df, n) ==
    IF n >= Len(df) THEN df ELSE SubSeq(df, Len(df) - n + 1, Len(df))

\* df[df[column] == value]
RECURSIVE FilterGeo(_, _)
FilterGeo(df, value) ==
    IF df = <<>> THEN <<>>
    ELSE IF df[1].geo = value THEN <<df[1]>> \o FilterGeo(Tail(df), value)
    ELSE FilterGeo(Tail(df), value)

IsSorted(df) ==
    \A i \in 1..(Len(df) - 1) : df[i].data_iniSE <= df[i + 1].data_iniSE

\* _load_dataset: read the CSV and sort it by city and date
RECURSIVE InsertByCityDate(_, _)
InsertByCityDate(r, s) ==
    IF s = <<>> THEN <<r>>
    ELSE IF \/ s[Len(s)].geo < r.geo
            \/ s[Len(s)].geo = r.geo /\ s[Len(s)].data_iniSE <= r.data_iniSE
         THEN Append(s, r)
    ELSE Append(InsertByCityDate(r, SubSeq(s, 1, Len(s) - 1)), s[Len(s)])

RECURSIVE LoadDataset(_)
LoadDataset(file) ==
    IF file = <<>> THEN <<>>
    ELSE InsertByCityDate(file[Len(file)],
                          LoadDataset(SubSeq(file, 1, Len(file) - 1)))

\* the rows _get_from_csv keeps for a geocode (lines 301-311)
CityRows(df_full, column, g) ==
    IF column = "geocodigo" THEN FilterGeo(df_full, IntOf(g))
    ELSE IF column = "municipio_geocodigo" THEN FilterGeo(df_full, IntOf(g))
    ELSE df_full

\* mutant: the length test comes before the emptiness test
GetFromCsv_LengthFirst(df_full, column, g, w) ==
    LET df_city == CityRows(df_full, column, g)
        window == Tail_(SortValues(df_city), w)
    IN  IF Len(window) < w
        THEN [kind |-> "raise", error |-> "DataNotFoundError", geocode |-> g,
              encontrado |-> Len(window), necessario |-> w]
        ELSE IF df_city = <<>>
        THEN [kind |-> "raise", error |-> "GeocodeNotFoundError", geocode |-> g]
        ELSE [kind |-> "return", df |-> window]

\* _get_from_csv: a window, or the exception it raises
GetFromCsv(df_full, column, g, w) ==
    LET df_city == CityRows(df_full, column, g)
        window == Tail_(SortValues(df_city), w)
    IN  IF df_city = <<>>
        THEN [kind |-> "raise", error |-> "GeocodeNotFoundError", geocode |-> g]
        ELSE IF Len(window) < w
        THEN [kind |-> "raise", error |-> "DataNotFoundError", geocode |-> g,
              encontrado |-> Len(window), necessario |-> w]
        ELSE [kind |-> "return", df |-> window]

\* what the InfoDengue request can come back with
ApiResponses ==
    {[status |-> s] : s \in {"timeout", "http_error", "malformed"}}
    \cup {[status |-> "ok", data |-> d] : d \in SeqsUpTo(ApiRow, MaxRows)}

\* _fetch_from_api: a DataFrame, or None on any failure
FetchFromApi(resp, w) ==
    IF resp.status # "ok" THEN NoValue
    ELSE IF resp.data = <<>> THEN NoValue
    ELSE [df |-> Tail_(SortValues(resp.data), w)]

NoOutcome == [kind |-> "none"]

DataIdle ==
    /\ pc = "idle"
    /\ geocode = <<>>
    /\ weeks = 0
    /\ pending = NoValue
    /\ outcome = NoOutcome
    /\ tierLog = <<>>
    /\ apiCalls = 0
    /\ setCalls = <<>>

DataInit ==
    /\ csvFile \in SeqsUpTo(CsvRow, MaxRows)
    /\ csvGeoColumn \in GeoColumns
    /\ redis_client \in BOOLEAN
    /\ dataStore = [k \in CacheKeys |-> NoValue]
    /\ dataset_cache = NoValue
    /\ DataIdle

\* get_historical_data is entered: the cache lookup is issued (line 362)
Call(g, w) ==
    /\ pc = "idle"
    /\ pc' = "cache"
    /\ geocode' = g
    /\ weeks' = w
    /\ tierLog' = <<"cache">>
    /\ UNCHANGED <<csvFile, csvGeoColumn, redis_client, dataStore,
                   dataset_cache, pending, outcome, apiCalls, setCalls>>

\* mutant: a cache hit is returned only after the API was asked as well
CacheGetDone_AsksApi(redisError) ==
    /\ pc = "cache"
    /\ LET cached == IF ~redis_client \/ redisError THEN NoValue
                     ELSE dataStore[CacheKey(geocode, weeks)]
       IN  /\ tierLog' = Append(tierLog, "api")
           /\ apiCalls' = apiCalls + 1
           /\ IF cached # NoValue
              THEN /\ pc' = "done"
                   /\ outcome' = [kind |-> "return", tier |-> "cache",
                                  df |-> ReadPickle(cached.value)]
              ELSE /\ pc' = "api"
                   /\ UNCHANGED outcome
    /\ UNCHANGED <<csvFile, csvGeoColumn, redis_client, dataStore,
                   dataset_cache, geocode, weeks, pending, setCalls>>

\* _get_from_cache answers (lines 163-186); on a miss the API request is
\* issued (line 368)
CacheGetDone(redisError) ==
    /\ pc = "cache"
    /\ LET cached == IF ~redis_client \/ redisError THEN NoValue
                     ELSE dataStore[CacheKey(geocode, weeks)]
       IN  IF cached # NoValue
           THEN /\ pc' = "done"
                /\ outcome' = [kind |-> "return", tier |-> "cache",
                               df |-> ReadPickle(cached.value)]
                /\ UNCHANGED <<tierLog, apiCalls>>
           ELSE /\ pc' = "api"
                /\ tierLog' = Append(tierLog, "api")
                /\ apiCalls' = apiCalls + 1
                /\ UNCHANGED outcome
    /\ UNCHANGED <<csvFile, csvGeoColumn, redis_client, dataStore,
                   dataset_cache, geocode, weeks, pending, setCalls>>

\* mutant: a request that gave no window is sent again, without a limit
ApiDone_RetriesForever(resp) ==
    /\ pc = "api"
    /\ LET api_data == FetchFromApi(resp, weeks)
       IN  IF api_data # NoValue /\ Len(api_data.df) >= weeks
           THEN /\ pc' = "store"
                /\ pending' = [tier |-> "api", df |-> api_data.df]
                /\ UNCHANGED apiCalls
           ELSE /\ apiCalls' = apiCalls + 1
                /\ UNCHANGED <<pc, pending>>
    /\ UNCHANGED <<csvFile, csvGeoColumn, redis_client, dataStore,
                   dataset_cache, geocode, weeks, outcome, tierLog, setCalls>>

\* _fetch_from_api answers (lines 368-378): a full window goes to the cache,
\* anything else falls through to the CSV, whose window goes to the cache
ApiDone(resp) ==
    /\ pc = "api"
    /\ LET api_data == FetchFromApi(resp, weeks)
           df_full == IF dataset_cache = NoValue THEN LoadDataset(csvFile)
                      ELSE dataset_cache.df
           csv_data == GetFromCsv(df_full, csvGeoColumn, geocode, weeks)
       IN  IF api_data # NoValue /\ Len(api_data.df) >= weeks
           THEN /\ pc' = "store"
                /\ pending' = [tier |-> "api", df |-> api_data.df]
                /\ UNCHANGED <<tierLog, outcome, dataset_cache>>
           ELSE /\ tierLog' = Append(tierLog, "csv")
                /\ dataset_cache' = [df |-> df_full]
                /\ IF csv_data.kind = "raise"
                   THEN /\ pc' = "done"
                        /\ outcome' = csv_data
                        /\ UNCHANGED pending
                   ELSE /\ pc' = "store"
                        /\ pending' = [tier |-> "csv", df |-> csv_data.df]
                        /\ UNCHANGED outcome
    /\ UNCHANGED <<csvFile, csvGeoColumn, redis_client, dataStore,
                   geocode, weeks, apiCalls, setCalls>>

\* mutant: the entry is stored under the key of the default window length
StoreDone_DefaultWindow(redisError) ==
    /\ pc = "store"
    /\ dataStore' =
           IF ~redis_client \/ redisError THEN dataStore
           ELSE [dataStore EXCEPT ![CacheKey(geocode, LOOKBACK_WEEKS)] =
                     [value |-> ToPickle(pending.df), ttl |-> CACHE_TTL]]
    /\ setCalls' = Append(setCalls,
                          [cache_key |-> CacheKey(geocode, LOOKBACK_WEEKS),
                           df |-> pending.df])
    /\ pc' = "done"
    /\ outcome' = [kind |-> "return", tier |-> pending.tier, df |-> pending.df]
    /\ pending' = NoValue
    /\ UNCHANGED <<csvFile, csvGeoColumn, redis_client, dataset_cache,
                   geocode, weeks, tierLog, apiCalls>>

\* _set_cache finishes (lines 188-211) and the window is returned
StoreDone(redisError) ==
    /\ pc = "store"
    /\ dataStore' =
           IF ~redis_client \/ redisError THEN dataStore
           ELSE [dataStore EXCEPT ![CacheKey(geocode, weeks)] =
                     [value |-> ToPickle(pending.df), ttl |-> CACHE_TTL]]
    /\ setCalls' = Append(setCalls, [cache_key |-> CacheKey(geocode, weeks),
                                     df |-> pending.df])
    /\ pc' = "done"
    /\ outcome' = [kind |-> "return", tier |-> pending.tier, df |-> pending.df]
    /\ pending' = NoValue
    /\ UNCHANGED <<csvFile, csvGeoColumn, redis_client, dataset_cache,
                   geocode, weeks, tierLog, apiCalls>>

\* the caller takes the result
Finish ==
    /\ pc = "done"
    /\ pc' = "idle"
    /\ geocode' = <<>>
    /\ weeks' = 0
    /\ outcome' = NoOutcome
    /\ tierLog' = <<>>
    /\ apiCalls' = 0
    /\ setCalls' = <<>>
    /\ UNCHANGED <<csvFile, csvGeoColumn, redis_client, dataStore,
                   dataset_cache, pending>>

\* a Redis entry reaches its TTL
Expire(k) ==
    /\ dataStore[k] # NoValue
    /\ dataStore' = [dataStore EXCEPT ![k] = NoValue]
    /\ UNCHANGED <<csvFile, csvGeoColumn, redis_client, dataset_cache, pc,
                   geocode, weeks, pending, outcome, tierLog, apiCalls,
                   setCalls>>

(***************************************************************************)
(* Properties of DataService (checked under SpecData)                      *)
(***************************************************************************)

\* the rows the static dataset holds for the geocode of the running call
RegionRows == CityRows(LoadDataset(csvFile), csvGeoColumn, geocode)

\* rows of df dated after d
RECURSIVE CountAfter(_, _)
CountAfter(df, d) ==
    IF df = <<>> THEN 0
    ELSE (IF df[1].data_iniSE > d THEN 1 ELSE 0) + CountAfter(Tail(df), d)

C2_ErrorKinds ==
    (pc = "done" /\ tierLog = <<"cache", "api", "csv">>) =>
        LET n == Len(RegionRows)
        IN  /\ n = 0 =>
                  /\ outcome.kind = "raise"
                  /\ outcome.error = "GeocodeNotFoundError"
            /\ (n >= 1 /\ n < weeks) =>
                  /\ outcome.kind = "raise"
                  /\ outcome.error = "DataNotFoundError"
                  /\ outcome.encontrado = n
                  /\ outcome.necessario = weeks
            /\ outcome.kind = "raise" =>
                  /\ outcome.error \in {"GeocodeNotFoundError",
                                        "DataNotFoundError"}
                  /\ outcome.error = "GeocodeNotFoundError" <=> n = 0

\* C2 witness: two rows stored, four requested: 2 found, 4 required.
C2_Witness ==
    /\ pc = "done"
    /\ outcome.kind = "raise"
    /\ outcome.error = "DataNotFoundError"
    /\ outcome.encontrado = 2
    /\ outcome.necessario = 4

\* C3: the tiers are tried in the order cache, API, CSV; a call answered by
\* the cache has sent no API request and read no CSV, and a call answered by
\* the API has read no CSV.
C3_TierOrder ==
    /\ tierLog \in {<<>>, <<"cache">>, <<"cache", "api">>,
                    <<"cache", "api", "csv">>}
    /\ (pc = "done" /\ outcome.kind = "return" /\ outcome.tier = "cache") =>
           (tierLog = <<"cache">> /\ apiCalls = 0)
    /\ (pc = "done" /\ outcome.kind = "return" /\ outcome.tier = "api") =>
           (tierLog = <<"cache", "api">> /\ apiCalls = 1)
    /\ (pc = "done" /\ outcome.kind = "return" /\ outcome.tier = "csv") =>
           tierLog = <<"cache", "api", "csv">>

\* C3 witness: a call answered by the cache.
C3_Witness ==
    /\ pc = "done"
    /\ outcome.kind = "return"
    /\ outcome.tier = "cache"
    /\ tierLog = <<"cache">>

\* C20: a call that resolves from the live API or from the CSV hands the
\* window it returns to _set_cache exactly once, under the key of its own
\* (region, weeks); a call answered by the cache, and a call that raises
\* GeocodeNotFoundError or DataNotFoundError, makes no cache write; and the
\* only entry of the store a call ever changes is the one under its own key,
\* which then holds the returned window with the TTL (every other change of
\* the store is an entry reaching its TTL).
C20_CacheWrites ==
    /\ [](pc = "done" =>
            /\ (outcome.kind = "return" /\ outcome.tier \in {"api", "csv"}) =>
                   setCalls = <<[cache_key |-> CacheKey(geocode, weeks),
                                 df |-> outcome.df]>>
            /\ (outcome.kind = "raise" \/ outcome.tier = "cache") =>
                   setCalls = <<>>)
    /\ [](\A i \in DOMAIN setCalls :
              setCalls[i].cache_key = CacheKey(geocode, weeks))
    /\ [][\A k \in CacheKeys :
              dataStore'[k] # dataStore[k] =>
                  \/ dataStore'[k] = NoValue
                  \/ /\ pc = "store"
                     /\ pc' = "done"
                     /\ k = CacheKey(geocode, weeks)
                     /\ outcome'.kind = "return"
                     /\ outcome'.tier \in {"api", "csv"}
                     /\ dataStore'[k] = [value |-> ToPickle(outcome'.df),
                                         ttl |-> CACHE_TTL]]_dataVars

\* C20 witness: a two-week window cut from the CSV was returned and is in
\* the store under the key of its region and of two weeks, while the key of
\* the same region and four weeks holds nothing.
C20_Witness ==
    /\ pc = "done"
    /\ outcome.kind = "return"
    /\ outcome.tier = "csv"
    /\ weeks = 2
    /\ Len(setCalls) = 1
    /\ dataStore[CacheKey(geocode, 2)] =
           [value |-> ToPickle(outcome.df), ttl |-> CACHE_TTL]
    /\ dataStore[CacheKey(geocode, LOOKBACK_WEEKS)] = NoValue

DataRest ==
    /\ csvFile = <<>>
    /\ csvGeoColumn = "none"
    /\ redis_client = FALSE
    /\ dataStore = [k \in CacheKeys |-> NoValue]
    /\ dataset_cache = NoValue
    /\ DataIdle

(***************************************************************************)
(* PredictionService                                                       *)
(***************************************************************************)
MaxCases == 12        \* weekly case counts 0..MaxCases, plus the named ones
MaxEstimate == 400    \* estimates handed to _classify_risk_level on its own

MAX_CASOS_SEMANAL == 300
MIN_CASOS_SEMANAL == 0

VARIABLES
    USE_ML_MODEL,   \* the ML switch of predict (line 174; FALSE as shipped)
    is_loaded,      \* PredictionService.is_loaded
    predPc,         \* "idle", or "returned" while a result is with the caller
    predArgs,       \* arguments of the last predict call
    predPath,       \* "none", "heuristic", "ml" or "ml_failed"
    predResult,     \* the dict it returned
    riskCall        \* last direct _classify_risk_level call, NoValue before

predVars == <<USE_ML_MODEL, is_loaded, predPc, predArgs, predPath, predResult>>
riskVars == <<riskCall>>

\* temperatures in tenths of a degree; case counts of the two weeks before
Temperatures == {150, 199, 200, 249, 250, 270, 300, 301, 350}
CaseCounts == (0..MaxCases) \cup {38, 45, 90, 301, 1000}

\* self.model.predict(...)[0] in tenths, or the try block failing
ModelOutputs ==
    {[raises |-> TRUE]}
    \cup {[raises |-> FALSE, prediction |-> p] :
             p \in {-15, -5, 0, 105, 3000, 3009, 50000}}

\* int(x) of a float given in tenths: truncation toward zero
IntOfTenths(x10) == IF x10 >= 0 THEN x10 \div 10 ELSE -((-x10) \div 10)

\* mutant: the moderate band takes 150 as well
ClassifyRiskLevel_Inclusive(casos) ==
    IF casos < 50 THEN "baixo"
    ELSE IF casos <= 150 THEN "moderado"
    ELSE IF casos < 300 THEN "alto"
    ELSE "muito_alto"

\* _classify_risk_level
ClassifyRiskLevel(casos) ==
    IF casos < 50 THEN "baixo"
    ELSE IF casos < 150 THEN "moderado"
    ELSE IF casos < 300 THEN "alto"
    ELSE "muito_alto"

\* _get_trend: (atual - anterior) / anterior against +-0.1
GetTrend(casos_atual, casos_anterior) ==
    IF casos_anterior = 0 THEN "estavel"
    ELSE IF 10 * (casos_atual - casos_anterior) > casos_anterior
         THEN "subindo"
    ELSE IF 10 * (casos_atual - casos_anterior) < -casos_anterior
         THEN "caindo"
    ELSE "estavel"

\* The products media_recente * fator_temperatura * fator_tendencia whose
\* double-precision value falls just under an integer that the exact product
\* reaches (0.7 and 1.2 are not binary fractions), so that int() gives one
\* less than the exact floor: <<2 * media_recente, 10 * fator_temperatura,
\* 10 * fator_tendencia>>, for 2 * media_recente up to 2000.
DoubleShortfall ==
    {<<180, 7, 10>>, <<340, 7, 10>>, <<350, 7, 12>>, <<360, 7, 10>>,
     <<650, 7, 12>>, <<660, 7, 10>>, <<680, 7, 10>>, <<700, 7, 12>>,
     <<700, 7, 10>>, <<720, 7, 10>>, <<1300, 7, 12>>, <<1300, 7, 10>>,
     <<1320, 7, 10>>, <<1340, 7, 10>>, <<1350, 7, 12>>, <<1360, 7, 10>>,
     <<1380, 7, 10>>, <<1400, 7, 12>>, <<1400, 7, 10>>, <<1420, 7, 10>>,
     <<1440, 7, 10>>, <<1450, 7, 12>>, <<1460, 7, 10>>}

\* int(media_recente * fator_temperatura * fator_tendencia), line 419
TruncProduct(media2, fator10, tend10) ==
    LET exact == (media2 * fator10 * tend10) \div 200
    IN  IF <<media2, fator10, tend10>> \in DoubleShortfall
        THEN exact - 1 ELSE exact

\* mutant: the trend thresholds are +-10% instead of +-20%
GetFallbackPrediction_Trend10(temperatura_media, casos_semana_anterior, casos_2sem_anterior) ==
    LET media2 ==
            IF casos_semana_anterior > 0 /\ casos_2sem_anterior > 0
            THEN casos_semana_anterior + casos_2sem_anterior
            ELSE IF casos_semana_anterior > 0 THEN 2 * casos_semana_anterior
            ELSE IF casos_2sem_anterior > 0 THEN 2 * casos_2sem_anterior
            ELSE 2 * 10
        fator_temperatura ==
            IF temperatura_media >= 250 /\ temperatura_media <= 300 THEN 13
            ELSE IF temperatura_media > 300 THEN 11
            ELSE IF temperatura_media >= 200 THEN 10
            ELSE 7
        diff == casos_semana_anterior - casos_2sem_anterior
        tendencia ==
            IF casos_2sem_anterior > 0
            THEN IF 10 * diff > casos_2sem_anterior THEN "subindo"
                 ELSE IF 10 * diff < -casos_2sem_anterior THEN "caindo"
                 ELSE "estavel"
            ELSE "estavel"
        fator_tendencia ==
            IF tendencia = "subindo" THEN 12
            ELSE IF tendencia = "caindo" THEN 8
            ELSE 10
        casos_estimados ==
            Max(0, TruncProduct(media2, fator_temperatura, fator_tendencia))
    IN  [casos_estimados |-> casos_estimados,
         nivel_risco |-> ClassifyRiskLevel(casos_estimados),
         confianca |-> 400,
         tendencia |-> tendencia,
         fonte |-> "Fallback (heurística baseada em histórico + clima)"]

\* _get_fallback_prediction; media2 is twice media_recente, the factors are
\* in tenths, variacao_recente > 0.2 is 5 * diff > casos_2sem_anterior
GetFallbackPrediction(temperatura_media, casos_semana_anterior, casos_2sem_anterior) ==
    LET media2 ==
            IF casos_semana_anterior > 0 /\ casos_2sem_anterior > 0
            THEN casos_semana_anterior + casos_2sem_anterior
            ELSE IF casos_semana_anterior > 0 THEN 2 * casos_semana_anterior
            ELSE IF casos_2sem_anterior > 0 THEN 2 * casos_2sem_anterior
            ELSE 2 * 10
        fator_temperatura ==
            IF temperatura_media >= 250 /\ temperatura_media <= 300 THEN 13
            ELSE IF temperatura_media > 300 THEN 11
            ELSE IF temperatura_media >= 200 THEN 10
            ELSE 7
        diff == casos_semana_anterior - casos_2sem_anterior
        tendencia ==
            IF casos_2sem_anterior > 0
            THEN IF 5 * diff > casos_2sem_anterior THEN "subindo"
                 ELSE IF 5 * diff < -casos_2sem_anterior THEN "caindo"
                 ELSE "estavel"
            ELSE "estavel"
        fator_tendencia ==
            IF tendencia = "subindo" THEN 12
            ELSE IF tendencia = "caindo" THEN 8
            ELSE 10
        casos_estimados ==
            Max(0, TruncProduct(media2, fator_temperatura, fator_tendencia))
    IN  [casos_estimados |-> casos_estimados,
         nivel_risco |-> ClassifyRiskLevel(casos_estimados),
         confianca |-> 400,
         tendencia |-> tendencia,
         fonte |-> "Fallback (heurística baseada em histórico + clima)"]

\* int(0.7 * min(raw, MAX) + 0.3 * anterior): the sum is a multiple of 0.1
Blend(casos_estimados_raw, casos_semana_anterior) ==
    (7 * Min(casos_estimados_raw, MAX_CASOS_SEMANAL)
       + 3 * casos_semana_anterior) \div 10

\* the try block of predict once the model has answered (lines 243-289)
ModelPrediction(loaded, prediction, casos_semana_anterior) ==
    LET casos_estimados_raw == Max(0, IntOfTenths(prediction))
        blended ==
            IF casos_semana_anterior > 0
            THEN Blend(casos_estimados_raw, casos_semana_anterior)
            ELSE Min(casos_estimados_raw, MAX_CASOS_SEMANAL)
        casos_estimados == Max(MIN_CASOS_SEMANAL, blended)
    IN  [casos_estimados |-> casos_estimados,
         nivel_risco |-> ClassifyRiskLevel(casos_estimados),
         confianca |-> IF loaded THEN 500 ELSE 300,
         tendencia |-> GetTrend(casos_estimados, casos_semana_anterior),
         fonte |-> "ML (XGBoost) com safeguards",
         observacao |-> IF loaded
             THEN "Modelo com R² negativo. Previsão ajustada com heurísticas."
             ELSE "None"]

PredIdle ==
    /\ USE_ML_MODEL = FALSE
    /\ is_loaded = FALSE
    /\ predPc = "idle"
    /\ predArgs = NoValue
    /\ predPath = "none"
    /\ predResult = NoValue

\* the service as constructed (lines 49-57); the switch of line 174 is FALSE
\* in the source and TRUE in a build that turns the model on
PredictInit ==
    /\ USE_ML_MODEL \in BOOLEAN
    /\ is_loaded = FALSE
    /\ predPc = "idle"
    /\ predArgs = NoValue
    /\ predPath = "none"
    /\ predResult = NoValue

\* load_model: is_loaded becomes True only when model and scaler were read
LoadModel(ok) ==
    /\ predPc = "idle"
    /\ is_loaded' = (is_loaded \/ ok)
    /\ UNCHANGED <<USE_ML_MODEL, predPc, predArgs, predPath, predResult>>

\* mutant: the model is used as soon as the switch or the loaded model is there
Predict_EitherSuffices(temperatura_media, casos_semana_anterior, casos_2sem_anterior, out) ==
    /\ predPc = "idle"
    /\ predPc' = "returned"
    /\ predArgs' = [temperatura_media |-> temperatura_media,
                    casos_semana_anterior |-> casos_semana_anterior,
                    casos_2sem_anterior |-> casos_2sem_anterior]
    /\ IF ~USE_ML_MODEL /\ ~is_loaded
       THEN /\ predPath' = "heuristic"
            /\ predResult' = GetFallbackPrediction(temperatura_media,
                                 casos_semana_anterior, casos_2sem_anterior)
       ELSE IF out.raises
       THEN /\ predPath' = "ml_failed"
            /\ predResult' = GetFallbackPrediction(temperatura_media, 0, 0)
       ELSE /\ predPath' = "ml"
            /\ predResult' = ModelPrediction(is_loaded, out.prediction,
                                             casos_semana_anterior)
    /\ UNCHANGED <<USE_ML_MODEL, is_loaded>>

\* predict (lines 128-293)
Predict(temperatura_media, casos_semana_anterior, casos_2sem_anterior, out) ==
    /\ predPc = "idle"
    /\ predPc' = "returned"
    /\ predArgs' = [temperatura_media |-> temperatura_media,
                    casos_semana_anterior |-> casos_semana_anterior,
                    casos_2sem_anterior |-> casos_2sem_anterior]
    /\ IF ~USE_ML_MODEL \/ ~is_loaded
       THEN /\ predPath' = "heuristic"
            /\ predResult' = GetFallbackPrediction(temperatura_media,
                                 casos_semana_anterior, casos_2sem_anterior)
       ELSE IF out.raises
       THEN /\ predPath' = "ml_failed"
            /\ predResult' = GetFallbackPrediction(temperatura_media, 0, 0)
       ELSE /\ predPath' = "ml"
            /\ predResult' = ModelPrediction(is_loaded, out.prediction,
                                             casos_semana_anterior)
    /\ UNCHANGED <<USE_ML_MODEL, is_loaded>>

\* the caller takes the result
TakePrediction ==
    /\ predPc = "returned"
    /\ predPc' = "idle"
    /\ predArgs' = NoValue
    /\ predPath' = "none"
    /\ predResult' = NoValue
    /\ UNCHANGED <<USE_ML_MODEL, is_loaded>>

RiskIdle == riskCall = NoValue

RiskInit == riskCall = NoValue

\* a direct call of _classify_risk_level
Classify(casos) ==
    riskCall' = [casos |-> casos, nivel_risco |-> ClassifyRiskLevel(casos)]

(***************************************************************************)
(* Properties of PredictionService (checked under SpecPredict, SpecRisk)   *)
(***************************************************************************)

C13_ModelOnlyWhenTrusted ==
    predPc = "returned" =>
        /\ predPath \in {"ml", "ml_failed"} => (USE_ML_MODEL /\ is_loaded)
        /\ ~(USE_ML_MODEL /\ is_loaded) =>
               /\ predPath = "heuristic"
               /\ predResult.confianca = 400
               /\ predResult.fonte =
                      "Fallback (heurística baseada em histórico + clima)"
               /\ predResult =
                      GetFallbackPrediction(predArgs.temperatura_media,
                                            predArgs.casos_semana_anterior,
                                            predArgs.casos_2sem_anterior)

\* C13 witness: the switch is off, a model is loaded, and predict answered
\* with the heuristic.
C13_Witness ==
    /\ predPc = "returned"
    /\ ~USE_ML_MODEL
    /\ is_loaded
    /\ predPath = "heuristic"
    /\ predResult.confianca = 400

C6_RiskBands ==
    riskCall # NoValue =>
        LET casos == riskCall.casos
            nivel == riskCall.nivel_risco
            Rank(l) == CASE l = "baixo" -> 1
                         [] l = "moderado" -> 2
                         [] l = "alto" -> 3
                         [] l = "muito_alto" -> 4
        IN  /\ nivel \in {"baixo", "moderado", "alto", "muito_alto"}
            /\ casos < 50 => nivel = "baixo"
            /\ (casos >= 50 /\ casos < 150) => nivel = "moderado"
            /\ (casos >= 150 /\ casos < 300) => nivel = "alto"
            /\ casos > 300 => nivel = "muito_alto"
            /\ \A menor \in 0..casos :
                   Rank(ClassifyRiskLevel(menor)) <= Rank(nivel)

\* C6 witness: the estimate 300 itself was classified, as muito_alto.
C6_Witness ==
    /\ riskCall # NoValue
    /\ riskCall.casos = 300
    /\ riskCall.nivel_risco = "muito_alto"

(***************************************************************************)
(* POST /predictions/predict: MLService and the multi-week loop            *)
(***************************************************************************)
MaxWeeksAhead == 5    \* weeks_ahead 1..MaxWeeksAhead (the schema allows 12)

VARIABLES
    is_ready,          \* MLService.is_ready
    fcPc,              \* "idle", "predicting" or "done"
    weeks_ahead,       \* request.weeks_ahead
    historical_data,   \* casos_est of the window handed to MLService
    current_data,      \* working window of predict_multiple_weeks
    predictions_raw,   \* (cases, confidence) pairs produced so far
    fcResponse,        \* the HTTP answer, NoValue while none
    fcGeocode,         \* request.geocode
    fcCalls            \* the service calls of the request, in order, each
                       \* with how it ended

forecastVars == <<is_ready, fcPc, weeks_ahead, historical_data, current_data,
                  predictions_raw, fcResponse, fcGeocode, fcCalls>>

\* the window the endpoint asks for the chart (line 257); the model's window
\* is LOOKBACK_WEEKS (line 263)
CHART_WEEKS == 12

\* geocodes a request can carry: the two Parana cities, Sao Paulo, a string
\* of six digits, and a string whose last character is not a digit (10)
GeoSaoPaulo == <<3, 5, 5, 0, 3, 0, 8>>
RequestGeocodes ==
    Geocodes \cup {GeoSaoPaulo, <<4, 1, 0, 6, 9, 0>>, <<4, 1, 0, 6, 9, 0, 10>>}

\* weeks_ahead values a request can carry
WeeksAheadRequests == {-1, 0, 13, 100} \cup (1..MaxWeeksAhead)

\* PredictionRequest.geocode: 7 characters, all digits, starting with "41"
ValidGeocode(v) ==
    /\ Len(v) = 7
    /\ \A i \in 1..Len(v) : v[i] \in 0..9
    /\ v[1] = 4
    /\ v[2] = 1

\* PredictionRequest.weeks_ahead: ge=1, le=12
ValidWeeksAhead(h) == h >= 1 /\ h <= 12

\* n dataset rows of region g, one per week
RowsOfRegion(g, n) == [i \in 1..n |-> [geo |-> IntOf(g), data_iniSE |-> i]]

\* the CSV files of the forecast model: Curitiba with no row, with fewer
\* rows than the model's window, with the model's window, with the chart's
EndpointCsvFiles ==
    {RowsOfRegion(GeoCuritiba, n) :
        n \in {0, LOOKBACK_WEEKS - 1, LOOKBACK_WEEKS, CHART_WEEKS}}

\* what InfoDengue answers to the endpoint's requests: nothing, fewer weeks
\* than the model's window, or the chart's window
EndpointApiResponses ==
    {[status |-> "timeout"]}
    \cup {[status |-> "ok", data |-> [i \in 1..n |-> [data_iniSE |-> i]]] :
             n \in {LOOKBACK_WEEKS - 1, CHART_WEEKS}}

\* get_historical_data of the DataService the endpoint is given, which is
\* built without Redis (get_data_service): API first, then the CSV
HistoricalData(g, w, resp) ==
    LET api_data == FetchFromApi(resp, w)
        csv_data == GetFromCsv(LoadDataset(csvFile), csvGeoColumn, g, w)
    IN  IF api_data # NoValue /\ Len(api_data.df) >= w
        THEN [kind |-> "return", tier |-> "api", df |-> api_data.df]
        ELSE IF csv_data.kind = "raise" THEN csv_data
        ELSE [kind |-> "return", tier |-> "csv", df |-> csv_data.df]

\* mutant: the city name is found for every geocode
GetCityName_AlwaysFound(g) ==
    [kind |-> "return"]

\* get_city_name: GeocodeNotFoundError when the dataset has no row of g
GetCityName(g) ==
    IF CityRows(LoadDataset(csvFile), csvGeoColumn, g) = <<>>
    THEN [kind |-> "raise", error |-> "GeocodeNotFoundError", geocode |-> g]
    ELSE [kind |-> "return"]

\* one entry of fcCalls
ServiceCall(name, w, ended) == [call |-> name, weeks |-> w, ended |-> ended]

\* how a data call ended: the tier that answered or the exception raised
EndOf(answer) == IF answer.kind = "raise" THEN answer.error ELSE answer.tier

\* weekly case counts of the forecast model
ForecastCases == {0, 1, 10}

\* casos_est of the four weeks handed to the model
HistoryWindows == [1..LOOKBACK_WEEKS -> ForecastCases]

\* what the Keras model comes back with: a denormalised estimate, or an
\* exception inside the try block of predict_next_week
ModelAnswers ==
    {[raises |-> TRUE]}
    \cup {[raises |-> FALSE, cases |-> c] : c \in ForecastCases \cup {-1}}

RECURSIVE SumOf(_)
SumOf(s) == IF s = <<>> THEN 0 ELSE s[1] + SumOf(Tail(s))

RECURSIVE SumOfSquares(_)
SumOfSquares(s) == IF s = <<>> THEN 0 ELSE s[1] * s[1] + SumOfSquares(Tail(s))

\* least q in lo..hi with (q * total)^2 >= n
RECURSIVE CeilRoot(_, _, _, _)
CeilRoot(n, total, lo, hi) ==
    IF lo >= hi THEN lo
    ELSE LET mid == (lo + hi) \div 2
         IN  IF mid * mid * total * total >= n
             THEN CeilRoot(n, total, lo, mid)
             ELSE CeilRoot(n, total, mid + 1, hi)

\* lines 321-330 of predict_next_week, in thousandths rounded down:
\* cv = std / mean = sqrt(n * sum(x^2) - sum(x)^2) / sum(x), or 1.0 when the
\* mean is not positive; confidence = max(0, min(1, 1 - cv / 2))
WindowConfidence(recent_cases) ==
    LET total == SumOf(recent_cases)
        spread == Len(recent_cases) * SumOfSquares(recent_cases)
                      - total * total
    IN  IF total > 0
        THEN Max(0, Min(1000,
                 1000 - CeilRoot(250000 * spread, total, 0, 1000)))
        ELSE Max(0, Min(1000, 1000 - 500))

RECURSIVE Pow(_, _)
Pow(b, n) == IF n = 0 THEN 1 ELSE b * Pow(b, n - 1)

\* conf * (0.95 ** (week_idx - 1)), line 329
AdjustedConfidence(conf, week_idx) ==
    (conf * Pow(95, week_idx - 1)) \div Pow(100, week_idx - 1)

\* _map_confidence_to_level
MapConfidenceToLevel(confidence) ==
    IF confidence >= 800 THEN "high"
    ELSE IF confidence >= 600 THEN "medium"
    ELSE "low"

\* round(x, 1) in tenths, for x >= 0 in ten-thousandths.  A tie (x.x5) is
\* rounded by Python on the binary value of the float; the ties of the
\* forecast model (0.85 and 1.15) lie below the decimal and go down.
RoundToTenths(x) == IF x % 1000 > 500 THEN x \div 1000 + 1 ELSE x \div 1000

\* mutant: the margin is taken off the upper bound as well
ConfidenceInterval_MarginOff(predicted_cases, confidence) ==
    LET margin == predicted_cases * (1000 - confidence) * 3
        lower == Max(0, predicted_cases * 10000 - margin)
        upper == predicted_cases * 10000 - margin
    IN  <<lower, upper>>

\* _calculate_confidence_interval, in ten-thousandths of a case:
\* margin = predicted_cases * (1 - confidence) * 0.30
ConfidenceInterval(predicted_cases, confidence) ==
    LET margin == predicted_cases * (1000 - confidence) * 3
        lower == Max(0, predicted_cases * 10000 - margin)
        upper == predicted_cases * 10000 + margin
    IN  <<lower, upper>>

\* the formatting loop of the endpoint (lines 318-340); predicted_cases,
\* lower_bound and upper_bound are the rounded values in tenths
RECURSIVE FormatPredictions(_, _)
FormatPredictions(raw, week_idx) ==
    IF raw = <<>> THEN <<>>
    ELSE <<[predicted_cases |-> RoundToTenths(raw[1][1] * 10000),
            adjusted_confidence |-> AdjustedConfidence(raw[1][2], week_idx),
            confidence |-> MapConfidenceToLevel(
                               AdjustedConfidence(raw[1][2], week_idx)),
            lower_bound |->
                RoundToTenths(ConfidenceInterval(raw[1][1], raw[1][2])[1]),
            upper_bound |->
                RoundToTenths(ConfidenceInterval(raw[1][1], raw[1][2])[2])]>>
         \o FormatPredictions(Tail(raw), week_idx + 1)

\* the detail of an HTTPException raised by the endpoint (lines 369-415)
ErrorResponse(status, error_code, g) ==
    [status |-> status, error_code |-> error_code, geocode |-> g]

\* the answer FastAPI gives to a request that PredictionRequest rejects
ValidationResponse == [status |-> 422, error_code |-> "REQUEST_VALIDATION"]

ForecastIdle ==
    /\ is_ready = FALSE
    /\ fcPc = "idle"
    /\ weeks_ahead = 0
    /\ historical_data = <<>>
    /\ current_data = <<>>
    /\ predictions_raw = <<>>
    /\ fcResponse = NoValue
    /\ fcGeocode = <<>>
    /\ fcCalls = <<>>

ForecastInit == ForecastIdle

\* the DataService of the endpoint: no Redis, one CSV file on disk
EndpointData ==
    /\ csvFile \in EndpointCsvFiles
    /\ csvGeoColumn = "geocodigo"
    /\ redis_client = FALSE
    /\ dataStore = [k \in CacheKeys |-> NoValue]
    /\ dataset_cache = NoValue
    /\ DataIdle

\* predict_dengue_cases up to the first model call (lines 219-307): the
\* request is validated, the chart's window and the model's window are
\* fetched, the city name is looked up, and weeks_ahead picks the model call
ForecastRequest(g, h, resp_chart, resp_model, window) ==
    /\ fcPc = "idle"
    /\ fcGeocode' = g
    /\ weeks_ahead' = h
    /\ IF ~ValidGeocode(g) \/ ~ValidWeeksAhead(h)
       THEN /\ fcPc' = "done"
            /\ fcResponse' = ValidationResponse
            /\ fcCalls' = <<>>
            /\ UNCHANGED <<historical_data, current_data>>
       ELSE
       LET historical_data_full == HistoricalData(g, CHART_WEEKS, resp_chart)
           for_model == HistoricalData(g, LOOKBACK_WEEKS, resp_model)
           city_name == GetCityName(g)
           call1 == ServiceCall("get_historical_data", CHART_WEEKS,
                                EndOf(historical_data_full))
           call2 == ServiceCall("get_historical_data", LOOKBACK_WEEKS,
                                EndOf(for_model))
           call3 == ServiceCall("get_city_name", 0,
                                IF city_name.kind = "raise"
                                THEN city_name.error ELSE "found")
           raised ==
               IF historical_data_full.kind = "raise"
               THEN historical_data_full
               ELSE IF for_model.kind = "raise" THEN for_model
               ELSE city_name
       IN  /\ fcCalls' =
                  IF historical_data_full.kind = "raise" THEN <<call1>>
                  ELSE IF for_model.kind = "raise" THEN <<call1, call2>>
                  ELSE <<call1, call2, call3>>
           /\ IF raised.kind = "raise"
              THEN /\ fcPc' = "done"
                   /\ fcResponse' =
                          IF raised.error = "GeocodeNotFoundError"
                          THEN ErrorResponse(404, "GEOCODE_NOT_FOUND", g)
                          ELSE ErrorResponse(422, "INSUFFICIENT_DATA", g)
                   /\ UNCHANGED <<historical_data, current_data>>
              ELSE IF h # 1 /\ (h < 1 \/ h > 4)
              THEN /\ fcPc' = "done"
                   /\ fcResponse' = ErrorResponse(500, "INTERNAL_ERROR", g)
                   /\ historical_data' = window
                   /\ UNCHANGED current_data
              ELSE /\ fcPc' = "predicting"
                   /\ historical_data' = window
                   /\ current_data' = window
                   /\ UNCHANGED fcResponse
    /\ UNCHANGED <<is_ready, predictions_raw>>

\* mutant: the new row is added and the oldest row is kept
PredictNextWeek_KeepsOldest(artifacts, answer) ==
    /\ fcPc = "predicting"
    /\ IF ~is_ready /\ ~artifacts
       THEN /\ fcPc' = "done"
            /\ fcResponse' = ErrorResponse(500, "INTERNAL_ERROR", fcGeocode)
            /\ fcCalls' = Append(fcCalls,
                   ServiceCall("predict_next_week", 0, "ModelNotFoundError"))
            /\ UNCHANGED <<is_ready, current_data, predictions_raw>>
       ELSE IF answer.raises
       THEN /\ is_ready' = TRUE
            /\ fcPc' = "done"
            /\ fcResponse' = ErrorResponse(500, "PREDICTION_ERROR", fcGeocode)
            /\ fcCalls' = Append(fcCalls,
                   ServiceCall("predict_next_week", 0, "PredictionError"))
            /\ UNCHANGED <<current_data, predictions_raw>>
       ELSE LET predicted_cases == Max(0, answer.cases)
                recent_cases == Tail_(current_data, LOOKBACK_WEEKS)
                confidence == WindowConfidence(recent_cases)
                predictions ==
                    Append(predictions_raw, <<predicted_cases, confidence>>)
            IN  /\ is_ready' = TRUE
                /\ predictions_raw' = predictions
                /\ fcCalls' = Append(fcCalls,
                       ServiceCall("predict_next_week", 0, "returned"))
                /\ IF Len(predictions) < weeks_ahead
                   THEN /\ current_data' =
                               Append(current_data, predicted_cases)
                        /\ UNCHANGED <<fcPc, fcResponse>>
                   ELSE /\ fcPc' = "done"
                        /\ fcResponse' =
                               [status |-> 200,
                                predictions |->
                                    FormatPredictions(predictions, 1)]
                        /\ UNCHANGED current_data
    /\ UNCHANGED <<weeks_ahead, historical_data, fcGeocode>>

\* one predict_next_week call (lines 299-345) with the bookkeeping of
\* predict_multiple_weeks around it (lines 371-391); after the last one the
\* endpoint formats the answer (lines 312-367)
PredictNextWeek(artifacts, answer) ==
    /\ fcPc = "predicting"
    /\ IF ~is_ready /\ ~artifacts
       THEN /\ fcPc' = "done"
            /\ fcResponse' = ErrorResponse(500, "INTERNAL_ERROR", fcGeocode)
            /\ fcCalls' = Append(fcCalls,
                   ServiceCall("predict_next_week", 0, "ModelNotFoundError"))
            /\ UNCHANGED <<is_ready, current_data, predictions_raw>>
       ELSE IF answer.raises
       THEN /\ is_ready' = TRUE
            /\ fcPc' = "done"
            /\ fcResponse' = ErrorResponse(500, "PREDICTION_ERROR", fcGeocode)
            /\ fcCalls' = Append(fcCalls,
                   ServiceCall("predict_next_week", 0, "PredictionError"))
            /\ UNCHANGED <<current_data, predictions_raw>>
       ELSE LET predicted_cases == Max(0, answer.cases)
                recent_cases == Tail_(current_data, LOOKBACK_WEEKS)
                confidence == WindowConfidence(recent_cases)
                predictions ==
                    Append(predictions_raw, <<predicted_cases, confidence>>)
            IN  /\ is_ready' = TRUE
                /\ predictions_raw' = predictions
                /\ fcCalls' = Append(fcCalls,
                       ServiceCall("predict_next_week", 0, "returned"))
                /\ IF Len(predictions) < weeks_ahead
                   THEN /\ current_data' =
                               Append(Tail(current_data), predicted_cases)
                        /\ UNCHANGED <<fcPc, fcResponse>>
                   ELSE /\ fcPc' = "done"
                        /\ fcResponse' =
                               [status |-> 200,
                                predictions |->
                                    FormatPredictions(predictions, 1)]
                        /\ UNCHANGED current_data
    /\ UNCHANGED <<weeks_ahead, historical_data, fcGeocode>>

\* the answer is sent; the next request starts from the loaded service
ForecastFinish ==
    /\ fcPc = "done"
    /\ fcPc' = "idle"
    /\ weeks_ahead' = 0
    /\ historical_data' = <<>>
    /\ current_data' = <<>>
    /\ predictions_raw' = <<>>
    /\ fcResponse' = NoValue
    /\ fcGeocode' = <<>>
    /\ fcCalls' = <<>>
    /\ UNCHANGED is_ready

(***************************************************************************)
(* Properties of the forecast (checked under SpecForecast)                 *)
(***************************************************************************)

\* C11: a valid request whose region has the history it needs (both windows
\* were served and the city was found) and whose weeks_ahead is one the
\* model service takes (1..4) is always answered 200 with predictions: a
\* missing or unloadable model artifact and an exception inside inference
\* are absorbed, so that GEOCODE_NOT_FOUND and INSUFFICIENT_DATA are the only
\* failures such a request can end in.
C11_OnlyDataErrorsSurface ==
    (/\ fcPc = "done"
     /\ ValidGeocode(fcGeocode)
     /\ weeks_ahead >= 1
     /\ weeks_ahead <= 4) =>
        /\ \/ fcResponse.status = 200
           \/ fcResponse.error_code \in {"GEOCODE_NOT_FOUND",
                                         "INSUFFICIENT_DATA"}
        /\ (Len(fcCalls) >= 3 /\ fcCalls[3].ended = "found") =>
               fcResponse.status = 200

\* C12: a valid request for a region without rows in the static dataset is
\* answered 404 GEOCODE_NOT_FOUND carrying the geocode of the request, also
\* when the live API served both windows; a request for which
\* get_historical_data raised DataNotFoundError (the region has rows, fewer
\* than the window asked for, and the API did not fill the window) is
\* answered 422 INSUFFICIENT_DATA; a geocode that is malformed or not from
\* Parana is answered 422 before any data is fetched; none of them ends in
\* a 200.
C12_DataErrorStatus ==
    fcPc = "done" =>
        LET rows == CityRows(LoadDataset(csvFile), csvGeoColumn, fcGeocode)
            valid == ValidGeocode(fcGeocode) /\ ValidWeeksAhead(weeks_ahead)
        IN  /\ ~ValidGeocode(fcGeocode) =>
                   (fcResponse.status = 422 /\ fcCalls = <<>>)
            /\ (valid /\ rows = <<>>) =>
                   fcResponse = ErrorResponse(404, "GEOCODE_NOT_FOUND",
                                              fcGeocode)
            /\ \A i \in DOMAIN fcCalls :
                   /\ fcCalls[i].ended = "DataNotFoundError" =>
                          fcResponse = ErrorResponse(422, "INSUFFICIENT_DATA",
                                                     fcGeocode)
                   /\ fcCalls[i].ended = "GeocodeNotFoundError" =>
                          fcResponse = ErrorResponse(404, "GEOCODE_NOT_FOUND",
                                                     fcGeocode)
            /\ (/\ valid
                /\ rows # <<>>
                /\ \E i \in DOMAIN fcCalls :
                       /\ fcCalls[i].call = "get_historical_data"
                       /\ fcCalls[i].ended # "api"
                       /\ Len(rows) < fcCalls[i].weeks) =>
                   fcResponse = ErrorResponse(422, "INSUFFICIENT_DATA",
                                              fcGeocode)
            /\ fcResponse.status = 200 =>
                   /\ ValidGeocode(fcGeocode)
                   /\ rows # <<>>
                   /\ \A i \in DOMAIN fcCalls :
                          fcCalls[i].ended \in {"api", "csv", "found",
                                                "returned"}

\* C12 witness: Londrina is not in the dataset, the live API served the
\* chart's and the model's window, and the request ended in 404 with the
\* geocode.
C12_Witness ==
    /\ fcPc = "done"
    /\ fcGeocode = GeoLondrina
    /\ Len(fcCalls) = 3
    /\ fcCalls[1].ended = "api"
    /\ fcCalls[2].ended = "api"
    /\ fcCalls[3].ended = "GeocodeNotFoundError"
    /\ fcResponse = ErrorResponse(404, "GEOCODE_NOT_FOUND", GeoLondrina)

\* C17: a request whose weeks_ahead is outside 1..4 is answered 422 and
\* nothing else, because the request schema accepts no weeks_ahead that
\* predict_multiple_weeks rejects (stated for requests with a valid geocode
\* none of whose data calls raised, so that no data error decides the
\* status).
C17_WeeksAheadRejected ==
    (/\ fcPc = "done"
     /\ ValidGeocode(fcGeocode)
     /\ (weeks_ahead < 1 \/ weeks_ahead > 4)
     /\ \A i \in DOMAIN fcCalls :
            fcCalls[i].ended \notin {"GeocodeNotFoundError",
                                     "DataNotFoundError"}) =>
        fcResponse.status = 422

\* C18: every entry of a 200 answer has, after the rounding to one decimal,
\* 0 <= lower_bound <= predicted_cases <= upper_bound.
C18_IntervalContainsEstimate ==
    (fcResponse # NoValue /\ fcResponse.status = 200) =>
        \A k \in DOMAIN fcResponse.predictions :
            /\ 0 <= fcResponse.predictions[k].lower_bound
            /\ fcResponse.predictions[k].lower_bound
                   <= fcResponse.predictions[k].predicted_cases
            /\ fcResponse.predictions[k].predicted_cases
                   <= fcResponse.predictions[k].upper_bound

\* C18 witness: an estimate of 1.0 case at confidence 0.5, whose bounds 0.85
\* and 1.15 are rounded to 0.8 and 1.1, next to an estimate of 0 cases.
C18_Witness ==
    /\ fcResponse # NoValue
    /\ fcResponse.status = 200
    /\ \E k \in DOMAIN fcResponse.predictions :
           /\ fcResponse.predictions[k].predicted_cases = 10
           /\ fcResponse.predictions[k].lower_bound = 8
           /\ fcResponse.predictions[k].upper_bound = 11
    /\ \E k \in DOMAIN fcResponse.predictions :
           /\ fcResponse.predictions[k].predicted_cases = 0
           /\ fcResponse.predictions[k].upper_bound = 0

\* C24: a forecast with 1 <= weeks_ahead <= 4 that is answered returns
\* exactly weeks_ahead predictions; while it runs, after k steps the working
\* window is the caller's window without its k oldest rows followed by the
\* k estimates made so far, in order (each step dropped the oldest row and
\* added a row with the step's estimate), so it keeps the length of the
\* caller's window; the caller's window is not modified by any step.
C24_RecursiveWindow ==
    /\ []((fcPc = "done" /\ fcResponse.status = 200) =>
              /\ weeks_ahead >= 1
              /\ weeks_ahead <= 4
              /\ Len(predictions_raw) = weeks_ahead
              /\ Len(fcResponse.predictions) = weeks_ahead)
    /\ [](fcPc = "predicting" =>
              LET k == Len(predictions_raw)
                  n == Len(historical_data)
              IN  /\ Len(current_data) = n
                  /\ \A i \in 1..n :
                         current_data[i] =
                             IF i + k <= n THEN historical_data[i + k]
                             ELSE predictions_raw[i + k - n][1])
    /\ [][fcPc = "predicting" =>
              historical_data' = historical_data]_forecastVars

\* C24 witness: the fourth step of a four-week forecast is about to run on
\* a window that holds the last row of the caller's window and the three
\* estimates 0, 1, 0.
C24_Witness ==
    /\ fcPc = "predicting"
    /\ weeks_ahead = 4
    /\ Len(predictions_raw) = 3
    /\ historical_data = <<10, 10, 10, 10>>
    /\ current_data = <<10, 0, 1, 0>>

\* C8: in a forecast of more than one week, the confidence of step k+1
\* after the 0.95-per-step decay is never above the confidence of step k
\* after its decay.
C8_ConfidenceNonIncreasing ==
    (fcResponse # NoValue /\ fcResponse.status = 200) =>
        \A k \in 1..(Len(fcResponse.predictions) - 1) :
            fcResponse.predictions[k + 1].adjusted_confidence
                <= fcResponse.predictions[k].adjusted_confidence

(***************************************************************************)
(* Redis and CacheService                                                  *)
(***************************************************************************)
MaxTicks == 4         \* the clock runs for MaxTicks steps of half an hour

DASHBOARD_TTL == 3600
WEATHER_TTL == 7200

VARIABLES
    redisStore,     \* Redis: key -> [value, expires_at], NoValue when absent
    now,            \* seconds since the start
    is_connected,   \* CacheService.is_connected
    client,         \* CacheService.redis_client: "none", "open" or "closed"
    cachePc,        \* "idle", or "returned" while a result is with the caller
    cacheCall,      \* the CacheService call that returned, with its result
    acked           \* per city, the payload last stored by a successful
                    \* set_dashboard_data and not deleted since, with its expiry

cacheVars == <<redisStore, now, is_connected, client, cachePc, cacheCall,
               acked>>

CityIds == {"4106902", "4113700"}

\* a code of no city, and the codes a dashboard request can carry
UnknownCityId == "9999999"
RequestCityIds == CityIds \cup {UnknownCityId}

\* coordinates in hundredths of a degree: two places of one grid cell and
\* one place of another
Coordinates == {<<-2543, -4927>>, <<-2538, -4933>>, <<-2331, -5116>>}

\* round(x, 1) in tenths, for x in hundredths.  A tie (x.x5) is rounded by
\* Python on the binary value of the float; Coordinates holds none.
RoundTenths(x) ==
    LET a == IF x < 0 THEN -x ELSE x
        q == a \div 10
        r == a % 10
        m == IF r > 5 THEN q + 1 ELSE q
    IN  IF x < 0 THEN -m ELSE m

\* f"dashboard:{city_id}"
DashboardKey(city_id) == <<"dashboard:", city_id>>

\* _get_grid_key
GridKey(lat, lon) ==
    <<"weather:grid:", RoundTenths(lat), ":", RoundTenths(lon)>>

RedisKeys ==
    {DashboardKey(c) : c \in RequestCityIds}
    \cup {GridKey(p[1], p[2]) : p \in Coordinates}

\* Python values: str, int, float (in tenths or thousandths), list, dict
PyStr(s) == [py |-> "str", value |-> s]
PyInt(n) == [py |-> "int", value |-> n]
PyFloat(x) == [py |-> "float", value |-> x]
PyList(items) == [py |-> "list", value |-> items]
PyDict(items) == [py |-> "dict", value |-> items]

\* json.dumps: the JSON text, as its parse tree
RECURSIVE JsonDumps(_)
JsonDumps(v) ==
    CASE v.py = "str" -> [json |-> "string", text |-> v.value]
      [] v.py = "int" -> [json |-> "number", literal |-> <<"int", v.value>>]
      [] v.py = "float" ->
             [json |-> "number", literal |-> <<"real", v.value>>]
      [] v.py \in {"list", "tuple"} ->
             [json |-> "array",
              elements |-> [i \in DOMAIN v.value |-> JsonDumps(v.value[i])]]
      [] v.py = "dict" ->
             [json |-> "object",
              members |-> [k \in DOMAIN v.value |-> JsonDumps(v.value[k])]]

\* json.loads
RECURSIVE JsonLoads(_)
JsonLoads(doc) ==
    CASE doc.json = "string" -> PyStr(doc.text)
      [] doc.json = "number" ->
             IF doc.literal[1] = "int" THEN PyInt(doc.literal[2])
             ELSE PyFloat(doc.literal[2])
      [] doc.json = "array" ->
             PyList([i \in DOMAIN doc.elements |-> JsonLoads(doc.elements[i])])
      [] doc.json = "object" ->
             PyDict([k \in DOMAIN doc.members |-> JsonLoads(doc.members[k])])

\* redis_client.get: the stored text, NoValue for a missing or expired key
RedisGet(key) ==
    IF redisStore[key] # NoValue /\ now < redisStore[key].expires_at
    THEN [value |-> redisStore[key].value]
    ELSE NoValue

\* redis_client.setex
RedisSetex(key, time, value) ==
    [redisStore EXCEPT ![key] = [value |-> value, expires_at |-> now + time]]

Returned(x) == [value |-> x]

NoCall == [op |-> "none"]

CacheIdle ==
    /\ redisStore = [k \in RedisKeys |-> NoValue]
    /\ now = 0
    /\ is_connected = FALSE
    /\ client = "none"
    /\ cachePc = "idle"
    /\ cacheCall = NoCall
    /\ acked = [c \in CityIds |-> NoValue]

\* CacheService as constructed (lines 46-49), Redis empty
CacheInit == CacheIdle

\* connect (lines 51-82): outcome "ok", "ping_failed" or "no_client"
Connect(result) ==
    /\ cachePc = "idle"
    /\ is_connected' = (result = "ok")
    /\ client' = IF result = "no_client" THEN client ELSE "open"
    /\ UNCHANGED <<redisStore, now, cachePc, cacheCall, acked>>

\* disconnect (lines 84-91)
Disconnect ==
    /\ cachePc = "idle"
    /\ client # "none"
    /\ client' = "closed"
    /\ UNCHANGED <<redisStore, now, is_connected, cachePc, cacheCall, acked>>

\* get_dashboard_data (lines 93-132)
GetDashboardData(city_id, redis_error) ==
    /\ cachePc = "idle"
    /\ cachePc' = "returned"
    /\ LET cached_data == RedisGet(DashboardKey(city_id))
           result ==
               IF ~is_connected \/ client = "none" THEN NoValue
               ELSE IF redis_error THEN NoValue
               ELSE IF cached_data # NoValue
                    THEN Returned(JsonLoads(cached_data.value))
               ELSE NoValue
       IN  cacheCall' = [op |-> "get_dashboard_data", city_id |-> city_id,
                         redis_error |-> redis_error, returned |-> result]
    /\ UNCHANGED <<redisStore, now, is_connected, client, acked>>

\* mutant: the entry is stored under a key that leaves the city out
SetDashboardData_OneKey(city_id, data, ttl, redis_error) ==
    /\ cachePc = "idle"
    /\ cachePc' = "returned"
    /\ LET stored == is_connected /\ client # "none" /\ ~redis_error
           json_data == JsonDumps(data)
       IN  /\ redisStore' =
                  IF stored
                  THEN [k \in RedisKeys |->
                           IF k \in {DashboardKey(c) : c \in CityIds}
                           THEN [value |-> json_data,
                                 expires_at |-> now + ttl]
                           ELSE redisStore[k]]
                  ELSE redisStore
           /\ acked' = IF stored
                       THEN [acked EXCEPT ![city_id] =
                                [data |-> data, expires_at |-> now + ttl]]
                       ELSE acked
           /\ cacheCall' = [op |-> "set_dashboard_data", city_id |-> city_id,
                            redis_error |-> redis_error,
                            returned |-> Returned(stored)]
    /\ UNCHANGED <<now, is_connected, client>>

\* set_dashboard_data (lines 134-176)
SetDashboardData(city_id, data, ttl, redis_error) ==
    /\ cachePc = "idle"
    /\ cachePc' = "returned"
    /\ LET stored == is_connected /\ client # "none" /\ ~redis_error
           json_data == JsonDumps(data)
       IN  /\ redisStore' =
                  IF stored
                  THEN RedisSetex(DashboardKey(city_id), ttl, json_data)
                  ELSE redisStore
           /\ acked' = IF stored
                       THEN [acked EXCEPT ![city_id] =
                                [data |-> data, expires_at |-> now + ttl]]
                       ELSE acked
           /\ cacheCall' = [op |-> "set_dashboard_data", city_id |-> city_id,
                            redis_error |-> redis_error,
                            returned |-> Returned(stored)]
    /\ UNCHANGED <<now, is_connected, client>>

\* delete (lines 178-199)
Delete(city_id, redis_error) ==
    /\ cachePc = "idle"
    /\ cachePc' = "returned"
    /\ LET deleted == is_connected /\ client # "none" /\ ~redis_error
       IN  /\ redisStore' =
                  IF deleted
                  THEN [redisStore EXCEPT ![DashboardKey(city_id)] = NoValue]
                  ELSE redisStore
           /\ acked' = IF deleted THEN [acked EXCEPT ![city_id] = NoValue]
                       ELSE acked
           /\ cacheCall' = [op |-> "delete", city_id |-> city_id,
                            redis_error |-> redis_error,
                            returned |-> Returned(deleted)]
    /\ UNCHANGED <<now, is_connected, client>>

\* exists (lines 201-221)
Exists(city_id, redis_error) ==
    /\ cachePc = "idle"
    /\ cachePc' = "returned"
    /\ LET result ==
               IF ~is_connected \/ client = "none" THEN FALSE
               ELSE IF redis_error THEN FALSE
               ELSE RedisGet(DashboardKey(city_id)) # NoValue
       IN  cacheCall' = [op |-> "exists", city_id |-> city_id,
                         redis_error |-> redis_error,
                         returned |-> Returned(result)]
    /\ UNCHANGED <<redisStore, now, is_connected, client, acked>>

\* get_ttl (lines 223-244); Redis answers -2 for a key that does not exist
GetTtl(city_id, redis_error) ==
    /\ cachePc = "idle"
    /\ cachePc' = "returned"
    /\ LET key == DashboardKey(city_id)
           result ==
               IF ~is_connected \/ client = "none" THEN NoValue
               ELSE IF redis_error THEN NoValue
               ELSE IF RedisGet(key) # NoValue
                    THEN Returned(redisStore[key].expires_at - now)
               ELSE Returned(-2)
       IN  cacheCall' = [op |-> "get_ttl", city_id |-> city_id,
                         redis_error |-> redis_error, returned |-> result]
    /\ UNCHANGED <<redisStore, now, is_connected, client, acked>>

\* the caller takes the result
TakeCacheResult ==
    /\ cachePc = "returned"
    /\ cachePc' = "idle"
    /\ cacheCall' = NoCall
    /\ UNCHANGED <<redisStore, now, is_connected, client, acked>>

\* half an hour passes; Redis drops the entries whose time is up
Tick ==
    /\ cachePc = "idle"
    /\ now < MaxTicks * (DASHBOARD_TTL \div 2)
    /\ now' = now + DASHBOARD_TTL \div 2
    /\ redisStore' =
           [k \in RedisKeys |->
               IF redisStore[k] # NoValue /\ redisStore[k].expires_at <= now'
               THEN NoValue ELSE redisStore[k]]
    /\ UNCHANGED <<is_connected, client, cachePc, cacheCall, acked>>

(***************************************************************************)
(* Properties of CacheService (checked under SpecCache)                    *)
(***************************************************************************)

\* C10: get_dashboard_data(city) returns the payload that the last
\* successful set_dashboard_data(city, payload) wrote, equal to it, as long
\* as the entry has not expired and was not deleted and the cache is
\* available; in every other case (expired, deleted, cache not connected or
\* failing, never written) it returns None.
C10_CacheRoundTrip ==
    (cachePc = "returned" /\ cacheCall.op = "get_dashboard_data") =>
        LET written == acked[cacheCall.city_id]
            available == is_connected /\ ~cacheCall.redis_error
        IN  IF available /\ written # NoValue /\ now < written.expires_at
            THEN cacheCall.returned = Returned(written.data)
            ELSE cacheCall.returned = NoValue

\* C10 witness: a payload is read back half an hour after it was written.
C10_Witness ==
    /\ cachePc = "returned"
    /\ cacheCall.op = "get_dashboard_data"
    /\ cacheCall.returned # NoValue
    /\ acked[cacheCall.city_id] # NoValue
    /\ cacheCall.returned.value = acked[cacheCall.city_id].data
    /\ now + DASHBOARD_TTL \div 2 = acked[cacheCall.city_id].expires_at

(***************************************************************************)
(* WeatherService                                                          *)
(***************************************************************************)
VARIABLES
    wxPc,           \* "idle", or "returned" while a result is with the caller
    wxCall          \* the get_current_weather call that ended: arguments,
                    \* steps taken, upstream answer and outcome

weatherVars == <<wxPc, wxCall>>

\* temperatures an upstream answer can carry, in tenths of a degree
WeatherTemps == {180, 270}

\* the body of a 200 answer: not JSON at all, a JSON array, or an object
\* whose "main" and "weather" members are absent, partial/empty or full
WeatherBodies ==
    {[form |-> "not_json"], [form |-> "array"]}
    \cup {[form |-> "object", main |-> m, weather |-> w, temp |-> t] :
             m \in {"absent", "partial", "full"},
             w \in {"absent", "empty", "full"},
             t \in WeatherTemps}

\* what the OpenWeatherMap request can come back with
WeatherAnswers ==
    {[kind |-> "timeout"], [kind |-> "connect_error"]}
    \cup {[kind |-> "status", code |-> c] : c \in {401, 429, 500}}
    \cup {[kind |-> "status", code |-> 200, body |-> b] : b \in WeatherBodies}

\* the classes an exception of the model belongs to
ClassesOf(exc) ==
    CASE exc = "TimeoutException" ->
             {"TimeoutException", "TransportError", "HTTPError", "Exception"}
      [] exc = "ConnectError" ->
             {"ConnectError", "TransportError", "HTTPError", "Exception"}
      [] exc = "KeyError" -> {"KeyError", "LookupError", "Exception"}
      [] exc = "IndexError" -> {"IndexError", "LookupError", "Exception"}
      [] exc = "TypeError" -> {"TypeError", "Exception"}
      [] exc = "JSONDecodeError" ->
             {"JSONDecodeError", "ValueError", "Exception"}
      [] exc = "RedisError" -> {"RedisError", "Exception"}
      [] exc = "AttributeError" -> {"AttributeError", "Exception"}
      [] exc = "HTTPStatusError" -> {"HTTPStatusError", "HTTPError", "Exception"}
      [] exc = "ResponseError" -> {"ResponseError", "RedisError", "Exception"}
      [] exc = "TimeoutError" -> {"TimeoutError", "RedisError", "Exception"}
      [] exc = "ConnectionError" ->
             {"ConnectionError", "RedisError", "Exception"}
      [] exc = "RuntimeError" -> {"RuntimeError", "Exception"}
      [] exc = "ValueError" -> {"ValueError", "Exception"}
      [] exc = "UnpicklingError" ->
             {"UnpicklingError", "PickleError", "Exception"}

\* does a try statement with these except clauses catch the exception
Catches(handlers, exc) ==
    \E i \in DOMAIN handlers : handlers[i] \in ClassesOf(exc)

\* mutant: the request is guarded without the final except Exception
WeatherHandlers_NoCatchAll == <<"TimeoutException", "HTTPError", "KeyError">>

\* the except clauses around the request (lines 197-211)
WeatherHandlers == <<"TimeoutException", "HTTPError", "KeyError", "Exception">>

\* the except clause around the cache check and the cache save
CacheHandlers == <<"Exception">>

Snapshot(atual, min, max, umidade, descricao, icon, fonte) ==
    PyDict([temperatura_atual |-> PyFloat(atual),
            temperatura_min |-> PyFloat(min),
            temperatura_max |-> PyFloat(max),
            umidade |-> PyFloat(umidade),
            descricao |-> PyStr(descricao),
            icon |-> PyStr(icon),
            fonte |-> PyStr(fonte)])

\* _get_fallback_weather
FallbackWeather ==
    Snapshot(250, 200, 300, 700,
             "Dados indisponíveis (usando média histórica)", "01d",
             "Fallback (API indisponível)")

\* lines 160-171: response.json() and the extraction of the fields, in the
\* order the dict literal evaluates them
ExtractWeather(body) ==
    IF body.form = "not_json" THEN [exc |-> "JSONDecodeError"]
    ELSE IF body.form = "array" THEN [exc |-> "TypeError"]
    ELSE IF body.main # "full" THEN [exc |-> "KeyError"]
    ELSE IF body.weather = "absent" THEN [exc |-> "KeyError"]
    ELSE IF body.weather = "empty" THEN [exc |-> "IndexError"]
    ELSE [data |-> Snapshot(body.temp, body.temp - 20, body.temp + 20, 650,
                            "céu limpo", "01d", "OpenWeatherMap")]

\* mutant: a failed request hands the fallback snapshot on as its data
RequestWeather_FallbackAsData(answer) ==
    IF answer.kind = "timeout" THEN [data |-> FallbackWeather]
    ELSE IF answer.kind = "connect_error" THEN [data |-> FallbackWeather]
    ELSE IF answer.code = 401 THEN [data |-> FallbackWeather]
    ELSE IF answer.code = 429 THEN [data |-> FallbackWeather]
    ELSE IF answer.code # 200 THEN [data |-> FallbackWeather]
    ELSE ExtractWeather(answer.body)

\* the try block of lines 131-195 up to the cache save: the snapshot built
\* from the answer, a fallback returned by a status test, or an exception
RequestWeather(answer) ==
    IF answer.kind = "timeout" THEN [exc |-> "TimeoutException"]
    ELSE IF answer.kind = "connect_error" THEN [exc |-> "ConnectError"]
    ELSE IF answer.code = 401 THEN [fallback |-> TRUE]
    ELSE IF answer.code = 429 THEN [fallback |-> TRUE]
    ELSE IF answer.code # 200 THEN [fallback |-> TRUE]
    ELSE ExtractWeather(answer.body)

NoWeatherCall == [op |-> "none"]

WeatherIdle ==
    /\ wxPc = "idle"
    /\ wxCall = NoWeatherCall

WeatherInit == WeatherIdle

\* get_current_weather (lines 78-211)
GetCurrentWeather(lat, lon, use_cache, read_error, answer, write_error) ==
    /\ wxPc = "idle"
    /\ wxPc' = "returned"
    /\ LET grid_key == GridKey(lat, lon)
           asks_cache == use_cache /\ is_connected
           read == IF read_error THEN [exc |-> "RedisError"]
                   ELSE [cached |-> RedisGet(grid_key)]
           read_failed == asks_cache /\ read_error
           hit == asks_cache /\ ~read_error /\ RedisGet(grid_key) # NoValue
           requested == RequestWeather(answer)
           live == "data" \in DOMAIN requested
           saves == live /\ use_cache /\ is_connected
           save_failed == saves /\ write_error
           steps == (IF asks_cache THEN <<"cache_get">> ELSE <<>>)
                    \o (IF hit THEN <<>> ELSE <<"http_get">>)
                    \o (IF ~hit /\ saves THEN <<"cache_set">> ELSE <<>>)
           ended ==
               IF read_failed /\ ~Catches(CacheHandlers, "RedisError")
               THEN [kind |-> "raise", exc |-> "RedisError"]
               ELSE IF hit
               THEN [kind |-> "return",
                     value |-> JsonLoads(RedisGet(grid_key).value)]
               ELSE IF "exc" \in DOMAIN requested
               THEN IF Catches(WeatherHandlers, requested.exc)
                    THEN [kind |-> "return", value |-> FallbackWeather]
                    ELSE [kind |-> "raise", exc |-> requested.exc]
               ELSE IF "fallback" \in DOMAIN requested
               THEN [kind |-> "return", value |-> FallbackWeather]
               ELSE IF save_failed /\ ~Catches(CacheHandlers, "RedisError")
               THEN [kind |-> "raise", exc |-> "RedisError"]
               ELSE [kind |-> "return", value |-> requested.data]
       IN  /\ redisStore' =
                  IF ~hit /\ saves /\ ~write_error
                     /\ ~(read_failed /\ ~Catches(CacheHandlers, "RedisError"))
                  THEN RedisSetex(grid_key, WEATHER_TTL,
                                  JsonDumps(requested.data))
                  ELSE redisStore
           /\ wxCall' = [op |-> "get_current_weather",
                         lat |-> lat, lon |-> lon, use_cache |-> use_cache,
                         steps |-> steps,
                         answer |-> IF hit THEN NoValue
                                    ELSE [upstream |-> answer],
                         outcome |-> ended]
    /\ UNCHANGED <<now, is_connected, client, cachePc, cacheCall, acked>>

\* the caller takes the result
TakeWeather ==
    /\ wxPc = "returned"
    /\ wxPc' = "idle"
    /\ wxCall' = NoWeatherCall
    /\ UNCHANGED cacheVars

(***************************************************************************)
(* Properties of WeatherService (checked under SpecWeather)                *)
(***************************************************************************)

\* C9: get_current_weather never raises: whatever the coordinates, the
\* state of the cache and the upstream answer (timeout, connection error,
\* 401, 429, another non-200 status, a body that is not the expected JSON,
\* a cache read or write error), it returns a snapshot with all seven
\* fields, and the snapshot is the fallback one, tagged as such, whenever
\* the upstream was asked and did not answer 200 with a full body.
C9_WeatherNeverRaises ==
    wxPc = "returned" =>
        /\ wxCall.outcome.kind = "return"
        /\ wxCall.outcome.value.py = "dict"
        /\ DOMAIN wxCall.outcome.value.value =
               {"temperatura_atual", "temperatura_min", "temperatura_max",
                "umidade", "descricao", "icon", "fonte"}
        /\ wxCall.outcome.value.value.fonte.value \in
               {"OpenWeatherMap", "Fallback (API indisponível)"}
        /\ (/\ wxCall.answer # NoValue
            /\ ~(/\ wxCall.answer.upstream.kind = "status"
                 /\ wxCall.answer.upstream.code = 200
                 /\ wxCall.answer.upstream.body.form = "object"
                 /\ wxCall.answer.upstream.body.main = "full"
                 /\ wxCall.answer.upstream.body.weather = "full"))
           => /\ wxCall.outcome.value.value.fonte.value =
                     "Fallback (API indisponível)"
              /\ wxCall.outcome.value.value.temperatura_atual.value = 250

\* C9 witness: a 200 answer whose "weather" list is empty (IndexError, which
\* only the last except clause catches) ended in the fallback snapshot.
C9_Witness ==
    /\ wxPc = "returned"
    /\ wxCall.answer # NoValue
    /\ wxCall.answer.upstream.kind = "status"
    /\ wxCall.answer.upstream.code = 200
    /\ wxCall.answer.upstream.body.form = "object"
    /\ wxCall.answer.upstream.body.main = "full"
    /\ wxCall.answer.upstream.body.weather = "empty"
    /\ wxCall.outcome.kind = "return"
    /\ wxCall.outcome.value = FallbackWeather

\* the grid keys of the weather cache
GridKeys == {GridKey(p[1], p[2]) : p \in Coordinates}

\* C28: a get_current_weather call that may use the cache reads the grid
\* key before it sends the upstream request, and a call that found the key
\* sends no request and returns the stored snapshot.  A call writes to the
\* cache only the snapshot it built from a 200 answer of the upstream, the
\* one it returns, under its own grid key; the fallback snapshot is never
\* written, so every grid entry is a snapshot tagged OpenWeatherMap.
C28_GridCacheLive ==
    /\ [](wxPc = "returned" =>
             LET steps == wxCall.steps
             IN  /\ (wxCall.use_cache /\ is_connected) =>
                        steps[1] = "cache_get"
                 /\ \A i, j \in DOMAIN steps :
                        (steps[i] = "cache_get" /\ steps[j] = "http_get")
                            => i < j
                 /\ wxCall.answer = NoValue =>
                        /\ steps = <<"cache_get">>
                        /\ wxCall.outcome.kind = "return"
                        /\ JsonDumps(wxCall.outcome.value) =
                               redisStore[GridKey(wxCall.lat,
                                                  wxCall.lon)].value)
    /\ [](\A k \in GridKeys :
             redisStore[k] # NoValue =>
                 LET entry == JsonLoads(redisStore[k].value)
                 IN  /\ entry # FallbackWeather
                     /\ entry.value.fonte.value = "OpenWeatherMap")
    /\ [][\A k \in GridKeys :
             (redisStore'[k] # redisStore[k] /\ redisStore'[k] # NoValue) =>
                 /\ wxPc = "idle" /\ wxPc' = "returned"
                 /\ k = GridKey(wxCall'.lat, wxCall'.lon)
                 /\ wxCall'.answer # NoValue
                 /\ wxCall'.answer.upstream.kind = "status"
                 /\ wxCall'.answer.upstream.code = 200
                 /\ wxCall'.outcome.kind = "return"
                 /\ redisStore'[k].value = JsonDumps(wxCall'.outcome.value)
                 /\ wxCall'.outcome.value.value.fonte.value =
                        "OpenWeatherMap"]_<<cacheVars, weatherVars>>

\* C28 witness: a call answered from the grid cache, with no request.
C28_Witness ==
    /\ wxPc = "returned"
    /\ wxCall.answer = NoValue
    /\ wxCall.steps = <<"cache_get">>
    /\ wxCall.outcome.value.value.fonte.value = "OpenWeatherMap"

(***************************************************************************)
(* GET /api/v1/dashboard                                                   *)
(***************************************************************************)
MaxRequests == 2      \* dashboard requests in one behaviour

VARIABLES
    dashPc,         \* position of the running get_dashboard request
    dashCity,       \* its city_id
    dashSteps,      \* the service calls it has made, in order
    dashWeather,    \* weather_data, NoValue before step 3
    dashAssembled,  \* the response dict of step 6, NoValue before
    dashResponse,   \* what the client receives: status and body
    dashRequests    \* requests started so far

dashVars == <<dashPc, dashCity, dashSteps, dashWeather, dashAssembled,
              dashResponse, dashRequests>>

\* CITY_COORDINATES of weather_service.py, coordinates in hundredths
CITY_COORDINATES ==
    "4106902" :> [name |-> "Curitiba", lat |-> -2543, lon |-> -4927]

\* cities_service.cities_by_ibge, as loaded from cidades_parana.json
cities_by_ibge ==
    "4113700" :> [nome |-> "Londrina", latitude |-> -2331,
                  longitude |-> -5116]

\* get_city_by_ibge: dict.get, None for an unknown code
GetCityByIbge(ibge_codigo) ==
    IF ibge_codigo \in DOMAIN cities_by_ibge THEN cities_by_ibge[ibge_codigo]
    ELSE NoValue

\* step 2 of get_dashboard (lines 89-106): name and coordinates of the city
\* and the lookups made, or the 404
CityLookup(city_id) ==
    IF city_id \in DOMAIN CITY_COORDINATES
    THEN [found |-> TRUE, steps |-> <<>>,
          city_name |-> CITY_COORDINATES[city_id].name,
          lat |-> CITY_COORDINATES[city_id].lat,
          lon |-> CITY_COORDINATES[city_id].lon]
    ELSE LET city == GetCityByIbge(city_id)
         IN  IF city = NoValue
             THEN [found |-> FALSE,
                   steps |-> <<"cities_service.get_city_by_ibge">>]
             ELSE [found |-> TRUE,
                   steps |-> <<"cities_service.get_city_by_ibge">>,
                   city_name |-> city.nome,
                   lat |-> city.latitude,
                   lon |-> city.longitude]

\* _get_city_population
GetCityPopulation(city_id) ==
    LET POPULATIONS == "4106902" :> 1963726
    IN  IF city_id \in DOMAIN POPULATIONS THEN POPULATIONS[city_id]
        ELSE 1000000

\* infodengue_service.get_historical_data as get_dashboard calls it
\* (use_cache left at True): line 89 calls cache_service.get, a method that
\* CacheService does not define, before the try block of the request
InfoDengueHistoricalData(ibge_code, weeks_asked) ==
    [exc |-> "AttributeError"]

\* the except clause around the history fetch (dashboard.py line 146)
HistoryHandlers == <<"Exception">>

\* what random.uniform gives in the five passes of the loop of
\* _generate_historical_data_fallback: variacao in hundredths, temp_var and
\* umid_var in tenths
DrawSequences ==
    {[k \in 1..5 |-> [variacao |-> 80, temp_var |-> -30, umid_var |-> -100]],
     <<[variacao |-> 120, temp_var |-> 30, umid_var |-> 100],
       [variacao |-> 100, temp_var |-> 0, umid_var |-> 0],
       [variacao |-> 80, temp_var |-> -30, umid_var |-> -100],
       [variacao |-> 100, temp_var |-> 0, umid_var |-> 0],
       [variacao |-> 120, temp_var |-> 30, umid_var |-> 100]>>}

\* strftime("%Y-%m-%d") of the day that lies days_ago days back
DateText(days_ago) == [strftime |-> "%Y-%m-%d", days_ago |-> days_ago]

\* mutant: the loop stops one day short
GenerateHistoricalDataFallback_FourDays(casos_base, weather_data, draws) ==
    PyList([k \in 1..4 |->
        PyDict([data |-> PyStr(DateText(6 - k)),
                casos |-> PyInt((casos_base * draws[k].variacao * 8)
                                    \div 1000),
                temperatura_media |->
                    PyFloat(weather_data.value.temperatura_atual.value
                                + draws[k].temp_var),
                umidade_media |->
                    PyFloat(Max(0, Min(1000,
                        weather_data.value.umidade.value
                            + draws[k].umid_var)))])])

\* _generate_historical_data_fallback (lines 189-231): pass k of the loop
\* is day i = 6 - k, and casos is int(casos_base * variacao * 0.8)
GenerateHistoricalDataFallback(casos_base, weather_data, draws) ==
    PyList([k \in 1..5 |->
        PyDict([data |-> PyStr(DateText(6 - k)),
                casos |-> PyInt((casos_base * draws[k].variacao * 8)
                                    \div 1000),
                temperatura_media |->
                    PyFloat(weather_data.value.temperatura_atual.value
                                + draws[k].temp_var),
                umidade_media |->
                    PyFloat(Max(0, Min(1000,
                        weather_data.value.umidade.value
                            + draws[k].umid_var)))])])

\* step 6 of get_dashboard (lines 158-171)
AssembleResponse(city_id, city_name, dados_historicos, prediction) ==
    PyDict([cidade |-> PyDict([ibge_codigo |-> PyStr(city_id),
                               nome |-> PyStr(city_name),
                               populacao |->
                                   PyInt(GetCityPopulation(city_id))]),
            dados_historicos |-> dados_historicos,
            predicao |->
                PyDict([casos_estimados |-> PyInt(prediction.casos_estimados),
                        nivel_risco |-> PyStr(prediction.nivel_risco),
                        tendencia |-> PyStr(prediction.tendencia),
                        confianca |-> PyFloat(prediction.confianca)])])

\* a field of a schema: the key is there and the value has the type
HasField(d, key, types) ==
    /\ d.py = "dict"
    /\ key \in DOMAIN d.value
    /\ d.value[key].py \in types

\* CidadeSchema
CidadeAccepts(c) ==
    /\ HasField(c, "ibge_codigo", {"str"})
    /\ HasField(c, "nome", {"str"})
    /\ HasField(c, "populacao", {"int"})
    /\ c.value.populacao.value >= 0

\* DadosHistoricosSchema: temperatures and humidities in tenths
DadosHistoricosAccepts(h) ==
    /\ HasField(h, "data", {"str"})
    /\ h.value.data.value = DateText(h.value.data.value.days_ago)
    /\ HasField(h, "casos", {"int"})
    /\ h.value.casos.value >= 0
    /\ HasField(h, "temperatura_media", {"int", "float"})
    /\ h.value.temperatura_media.value >= -500
    /\ h.value.temperatura_media.value <= 600
    /\ HasField(h, "umidade_media", {"int", "float"})
    /\ h.value.umidade_media.value >= 0
    /\ h.value.umidade_media.value <= 1000

\* PredicaoSchema: confianca in thousandths
PredicaoAccepts(p) ==
    /\ HasField(p, "casos_estimados", {"int"})
    /\ p.value.casos_estimados.value >= 0
    /\ HasField(p, "nivel_risco", {"str"})
    /\ p.value.nivel_risco.value \in {"baixo", "moderado", "alto", "muito_alto"}
    /\ HasField(p, "tendencia", {"str"})
    /\ p.value.tendencia.value \in {"estavel", "subindo", "caindo"}
    /\ HasField(p, "confianca", {"int", "float"})
    /\ p.value.confianca.value >= 0
    /\ p.value.confianca.value <= 1000

\* DashboardResponseSchema, the response_model of the route
ResponseModelAccepts(body) ==
    /\ HasField(body, "cidade", {"dict"})
    /\ CidadeAccepts(body.value.cidade)
    /\ HasField(body, "dados_historicos", {"list"})
    /\ Len(body.value.dados_historicos.value) = 5
    /\ \A k \in DOMAIN body.value.dados_historicos.value :
           DadosHistoricosAccepts(body.value.dados_historicos.value[k])
    /\ HasField(body, "predicao", {"dict"})
    /\ PredicaoAccepts(body.value.predicao)

\* a dict cut down to the fields of its schema
OnlyFields(d, keys) == PyDict([k \in keys |-> d.value[k]])

\* the body FastAPI serialises through the response_model: the fields of
\* the schemas and nothing else
SerializeResponse(body) ==
    PyDict([cidade |->
                OnlyFields(body.value.cidade,
                           {"ibge_codigo", "nome", "populacao"}),
            dados_historicos |->
                PyList([k \in DOMAIN body.value.dados_historicos.value |->
                    OnlyFields(body.value.dados_historicos.value[k],
                               {"data", "casos", "temperatura_media",
                                "umidade_media"})]),
            predicao |->
                OnlyFields(body.value.predicao,
                           {"casos_estimados", "nivel_risco", "tendencia",
                            "confianca"})])

\* what the client receives for a value the handler returned: 200 with the
\* serialised body, 500 when the response_model rejects the value
Respond(body) ==
    IF ResponseModelAccepts(body)
    THEN [status |-> 200, body |-> SerializeResponse(body)]
    ELSE [status |-> 500, body |-> NoValue]

\* HTTPException(status_code=...)
HttpError(status) == [status |-> status, body |-> NoValue]

\* the payloads a direct caller of CacheService stores
DashboardPayloads ==
    {AssembleResponse("4106902", "Curitiba",
         GenerateHistoricalDataFallback(13, FallbackWeather,
             [k \in 1..5 |-> [variacao |-> 100, temp_var |-> 0,
                              umid_var |-> 0]]),
         GetFallbackPrediction(250, 0, 0)),
     AssembleResponse("4113700", "Londrina",
         GenerateHistoricalDataFallback(7, FallbackWeather,
             [k \in 1..5 |-> [variacao |-> 120, temp_var |-> 30,
                              umid_var |-> 100]]),
         GetFallbackPrediction(180, 0, 0))}

\* the weather answers of the dashboard runs: the upstream down, a full
\* answer, an answer with a body that cannot be read
DashboardWeatherAnswers ==
    {[kind |-> "timeout"],
     [kind |-> "status", code |-> 200,
      body |-> [form |-> "object", main |-> "full", weather |-> "full",
                temp |-> 180]],
     [kind |-> "status", code |-> 200,
      body |-> [form |-> "object", main |-> "full", weather |-> "empty",
                temp |-> 180]]}

\* weather answers in the temperature bands of the heuristic: the upstream
\* down (the fallback's 25 degrees), and 18, 22 and 31 degrees
ClimateWeatherAnswers ==
    {[kind |-> "timeout"]}
    \cup {[kind |-> "status", code |-> 200,
           body |-> [form |-> "object", main |-> "full", weather |-> "full",
                     temp |-> t]] : t \in {180, 220, 310}}

\* the model answers of the dashboard runs
DashboardModelOutputs ==
    {[raises |-> TRUE], [raises |-> FALSE, prediction |-> 3009]}

DashIdle ==
    /\ dashPc = "idle"
    /\ dashCity = NoValue
    /\ dashSteps = <<>>
    /\ dashWeather = NoValue
    /\ dashAssembled = NoValue
    /\ dashResponse = NoValue
    /\ dashRequests = 0

DashInit == DashIdle

\* get_dashboard, steps 1 and 2 (lines 77-106): the cache check, and on a
\* miss the lookup of the city
DashStart(city_id, redis_error) ==
    /\ dashPc = "idle"
    /\ dashRequests < MaxRequests
    /\ GetDashboardData(city_id, redis_error)
    /\ dashRequests' = dashRequests + 1
    /\ dashCity' = city_id
    /\ LET cached_data == cacheCall'.returned
           city == CityLookup(city_id)
       IN  IF cached_data # NoValue
           THEN /\ dashSteps' = <<"cache_service.get_dashboard_data">>
                /\ dashResponse' = Respond(cached_data.value)
                /\ dashPc' = "done"
           ELSE /\ dashSteps' =
                       <<"cache_service.get_dashboard_data">> \o city.steps
                /\ dashResponse' =
                       IF city.found THEN NoValue ELSE HttpError(404)
                /\ dashPc' = IF city.found THEN "weather" ELSE "done"
    /\ UNCHANGED <<dashWeather, dashAssembled>>

\* step 3 (lines 114-121)
DashWeather(read_error, answer, write_error) ==
    /\ dashPc = "weather"
    /\ LET city == CityLookup(dashCity)
       IN  GetCurrentWeather(city.lat, city.lon, TRUE, read_error, answer,
                             write_error)
    /\ dashSteps' = Append(dashSteps, "weather_service.get_current_weather")
    /\ IF wxCall'.outcome.kind = "raise"
       THEN /\ dashResponse' = HttpError(503)
            /\ dashPc' = "done"
            /\ UNCHANGED dashWeather
       ELSE /\ dashWeather' = wxCall'.outcome.value
            /\ dashPc' = "predict"
            /\ UNCHANGED dashResponse
    /\ UNCHANGED <<dashCity, dashAssembled, dashRequests>>

\* mutant: predict is given the case counts of the two weeks before
DashPredict_WithHistory(out) ==
    /\ dashPc = "predict"
    /\ TakeWeather
    /\ Predict(dashWeather.value.temperatura_atual.value, 45, 38, out)
    /\ dashSteps' = Append(dashSteps, "prediction_service.predict")
    /\ dashPc' = "history"
    /\ UNCHANGED <<dashCity, dashWeather, dashAssembled, dashResponse,
                   dashRequests>>

\* step 4 (lines 127-132): predict is given the climate and no case count
DashPredict(out) ==
    /\ dashPc = "predict"
    /\ TakeWeather
    /\ Predict(dashWeather.value.temperatura_atual.value, 0, 0, out)
    /\ dashSteps' = Append(dashSteps, "prediction_service.predict")
    /\ dashPc' = "history"
    /\ UNCHANGED <<dashCity, dashWeather, dashAssembled, dashResponse,
                   dashRequests>>

\* steps 5 and 6 (lines 138-171): the history fetch, its fallback, and the
\* response put together
DashHistory(draws) ==
    /\ dashPc = "history"
    /\ TakeCacheResult
    /\ TakePrediction
    /\ dashSteps' = Append(dashSteps, "infodengue_service.get_historical_data")
    /\ LET prediction == predResult
           fetched == InfoDengueHistoricalData(dashCity, 5)
           failed == "exc" \in DOMAIN fetched
           dados_historicos ==
               IF failed
               THEN GenerateHistoricalDataFallback(
                        prediction.casos_estimados, dashWeather, draws)
               ELSE fetched.data
       IN  IF failed /\ ~Catches(HistoryHandlers, fetched.exc)
           THEN /\ dashResponse' = HttpError(500)
                /\ dashPc' = "done"
                /\ UNCHANGED dashAssembled
           ELSE /\ dashAssembled' =
                       AssembleResponse(dashCity,
                                        CityLookup(dashCity).city_name,
                                        dados_historicos, prediction)
                /\ dashPc' = "store"
                /\ UNCHANGED dashResponse
    /\ UNCHANGED <<dashCity, dashWeather, dashRequests>>
    /\ UNCHANGED weatherVars

\* mutant: the entry is written with the TTL of the weather grid
DashStore_WeatherTtl(redis_error) ==
    /\ dashPc = "store"
    /\ SetDashboardData(dashCity, dashAssembled, WEATHER_TTL, redis_error)
    /\ dashSteps' = Append(dashSteps, "cache_service.set_dashboard_data")
    /\ dashResponse' = Respond(dashAssembled)
    /\ dashPc' = "done"
    /\ UNCHANGED <<dashCity, dashWeather, dashAssembled, dashRequests>>

\* step 7 and the return (lines 177-181)
DashStore(redis_error) ==
    /\ dashPc = "store"
    /\ SetDashboardData(dashCity, dashAssembled, 3600, redis_error)
    /\ dashSteps' = Append(dashSteps, "cache_service.set_dashboard_data")
    /\ dashResponse' = Respond(dashAssembled)
    /\ dashPc' = "done"
    /\ UNCHANGED <<dashCity, dashWeather, dashAssembled, dashRequests>>

\* the response is sent; the services are free for the next request
DashFinish ==
    /\ dashPc = "done"
    /\ cachePc' = "idle"
    /\ cacheCall' = NoCall
    /\ wxPc' = "idle"
    /\ wxCall' = NoWeatherCall
    /\ dashPc' = "idle"
    /\ dashCity' = NoValue
    /\ dashSteps' = <<>>
    /\ dashWeather' = NoValue
    /\ dashAssembled' = NoValue
    /\ dashResponse' = NoValue
    /\ UNCHANGED <<redisStore, now, is_connected, client, acked, dashRequests>>

(***************************************************************************)
(* Properties of get_dashboard (checked under SpecDashboard)               *)
(***************************************************************************)

\* C15: a get_dashboard request that finds the city's response in the
\* cache returns that payload and makes no other call: no city lookup, no
\* weather call, no prediction, no history fetch, no cache write, and Redis
\* keeps its contents; a request that missed and assembled a response
\* calls set_dashboard_data for the city before it returns, the call is its
\* last one and touches no other key, and when the cache took the write the
\* city's key holds the assembled response with an expiry one hour ahead.
C15_CacheHitSkipsUpstream ==
    /\ [](dashPc = "done" =>
             IF cacheCall.op = "get_dashboard_data"
                /\ cacheCall.returned # NoValue
             THEN /\ dashSteps = <<"cache_service.get_dashboard_data">>
                  /\ dashResponse = Respond(cacheCall.returned.value)
                  /\ dashAssembled = NoValue
                  /\ dashWeather = NoValue
                  /\ wxPc = "idle"
                  /\ predPc = "idle"
             ELSE dashAssembled # NoValue =>
                  /\ dashSteps[Len(dashSteps)] =
                         "cache_service.set_dashboard_data"
                  /\ cacheCall.op = "set_dashboard_data"
                  /\ cacheCall.city_id = dashCity
                  /\ cacheCall.returned.value =>
                         redisStore[DashboardKey(dashCity)] =
                             [value |-> JsonDumps(dashAssembled),
                              expires_at |-> now + 3600])
    /\ [][(dashPc = "idle" /\ dashPc' = "done") =>
              redisStore' = redisStore]_<<cacheVars, dashVars>>
    /\ [][(dashPc = "store" /\ dashPc' = "done") =>
              \A k \in RedisKeys \ {DashboardKey(dashCity)} :
                  redisStore'[k] = redisStore[k]]_<<cacheVars, dashVars>>

\* C15 witness: the second request for Londrina is answered from the cache
\* with the response the first one assembled and stored.
C15_Witness ==
    /\ dashPc = "done"
    /\ dashRequests = 2
    /\ dashCity = "4113700"
    /\ cacheCall.op = "get_dashboard_data"
    /\ cacheCall.returned # NoValue
    /\ acked["4113700"] # NoValue
    /\ dashResponse = [status |-> 200, body |-> acked["4113700"].data]

\* C16: within one request the prediction is invoked only after both the
\* weather call and the history fetch of that request have been made.
C16_PredictionAfterClimateAndHistory ==
    \A i \in DOMAIN dashSteps :
        dashSteps[i] = "prediction_service.predict" =>
            /\ \E j \in 1..(i - 1) :
                   dashSteps[j] = "weather_service.get_current_weather"
            /\ \E j \in 1..(i - 1) :
                   dashSteps[j] = "infodengue_service.get_historical_data"

\* C19: every body get_dashboard answers with status 200, read from the
\* cache or computed, and every response it assembles, whatever the
\* weather and history sources did, has exactly 5 historical entries, each
\* with a date, an integer case count >= 0, a mean temperature and a mean
\* humidity, and a prediction with an integer casos_estimados >= 0, a
\* nivel_risco among baixo, moderado, alto, muito_alto, a tendencia among
\* estavel, subindo, caindo and a confianca within [0, 1].
C19_ResponseShape ==
    LET answered == IF dashResponse # NoValue /\ dashResponse.status = 200
                    THEN {dashResponse.body} ELSE {}
        assembled == IF dashAssembled # NoValue THEN {dashAssembled} ELSE {}
    IN  \A body \in answered \cup assembled :
            LET historico == body.value.dados_historicos
                predicao == body.value.predicao.value
            IN  /\ historico.py = "list"
                /\ Len(historico.value) = 5
                /\ \A k \in 1..5 :
                       LET h == historico.value[k].value
                       IN  /\ {"data", "casos", "temperatura_media",
                                "umidade_media"} \subseteq DOMAIN h
                           /\ h.data.py = "str"
                           /\ h.casos.py = "int"
                           /\ h.casos.value >= 0
                           /\ h.temperatura_media.py \in {"int", "float"}
                           /\ h.umidade_media.py \in {"int", "float"}
                /\ predicao.casos_estimados.py = "int"
                /\ predicao.casos_estimados.value >= 0
                /\ predicao.nivel_risco.value \in
                       {"baixo", "moderado", "alto", "muito_alto"}
                /\ predicao.tendencia.value \in
                       {"estavel", "subindo", "caindo"}
                /\ predicao.confianca.py \in {"int", "float"}
                /\ predicao.confianca.value >= 0
                /\ predicao.confianca.value <= 1000

\* C19 witness: a 200 answer served from the cache whose body was computed
\* while the weather source was down (history around the fallback 25.0
\* degrees, heuristic estimate 13).
C19_Witness ==
    /\ dashPc = "done"
    /\ dashResponse.status = 200
    /\ cacheCall.op = "get_dashboard_data"
    /\ cacheCall.returned # NoValue
    /\ dashResponse.body.value.predicao.value.casos_estimados.value = 13
    /\ dashResponse.body.value.dados_historicos.value[1].value
           .temperatura_media.value = 220

\* the estimate of the heuristic for a base of 10 cases, by temperature band
ClimateOnlyEstimate(temperatura_media) ==
    IF temperatura_media >= 250 /\ temperatura_media <= 300 THEN 13
    ELSE IF temperatura_media > 300 THEN 11
    ELSE IF temperatura_media >= 200 THEN 10
    ELSE 7

MaxThreads == 2       \* requests whose first uses run concurrently

VARIABLES
    ldPc,                   \* per request, its position
    ml_instance,            \* MLService._instance: 0 for None, else the id
    instance_lock,          \* holder of MLService._lock, 0 when free
    mlCreated,              \* MLService objects constructed so far
    data_service_instance,  \* _data_service_instance: 0 for None, else the id
    dsCreated,              \* DataService objects constructed so far
    dsLocal,                \* per request, the DataService it was handed
    lru_entry,              \* lru_cache of _load_dataset (maxsize=1): the
                            \* instance its entry belongs to, 0 when empty
    datasetReads,           \* pd.read_csv calls on the dataset so far
    load_lock,              \* holder of MLService._load_lock, 0 when free
    loadLog                 \* the loads _load_artifacts made from disk: by
                            \* whom, what was read, is_ready before

loadVars == <<ldPc, ml_instance, instance_lock, mlCreated,
              data_service_instance, dsCreated, dsLocal, lru_entry,
              datasetReads, load_lock, loadLog>>

Threads == 1..MaxThreads

\* what _load_artifacts finds on disk: both files readable, a file missing,
\* or a scaler that joblib cannot read
ArtifactStates == {"ok", "missing", "scaler_unreadable"}

LoadIdle ==
    /\ ldPc = [t \in Threads |-> "new"]
    /\ ml_instance = 0
    /\ instance_lock = 0
    /\ mlCreated = 0
    /\ data_service_instance = 0
    /\ dsCreated = 0
    /\ dsLocal = [t \in Threads |-> 0]
    /\ lru_entry = 0
    /\ datasetReads = 0
    /\ load_lock = 0
    /\ loadLog = <<>>

\* the process after import: no singleton, nothing loaded
LoadInit == LoadIdle

\* the variables a step of request t leaves alone
LoadUnchanged(t, changed) ==
    /\ "ml_instance" \in changed \/ UNCHANGED <<ml_instance, mlCreated>>
    /\ "instance_lock" \in changed \/ UNCHANGED instance_lock
    /\ "data_service" \in changed
           \/ UNCHANGED <<data_service_instance, dsCreated>>
    /\ "dsLocal" \in changed \/ UNCHANGED dsLocal
    /\ "dataset" \in changed \/ UNCHANGED <<lru_entry, datasetReads>>
    /\ "load_lock" \in changed \/ UNCHANGED load_lock
    /\ "artifacts" \in changed \/ UNCHANGED <<is_ready, loadLog>>

\* get_instance, the unlocked test (ml_service.py line 138)
InstanceCheck(t) ==
    /\ ldPc[t] = "new"
    /\ ldPc' = [ldPc EXCEPT ![t] = IF ml_instance = 0 THEN "instance_lock"
                                   ELSE "data_service"]
    /\ LoadUnchanged(t, {})

\* with cls._lock (line 139)
InstanceLock(t) ==
    /\ ldPc[t] = "instance_lock"
    /\ instance_lock = 0
    /\ instance_lock' = t
    /\ ldPc' = [ldPc EXCEPT ![t] = "instance_locked"]
    /\ LoadUnchanged(t, {"instance_lock"})

\* the test under the lock, the construction and the release (lines 140-141)
InstanceCreate(t) ==
    /\ ldPc[t] = "instance_locked"
    /\ IF ml_instance = 0
       THEN /\ mlCreated' = mlCreated + 1
            /\ ml_instance' = mlCreated + 1
       ELSE UNCHANGED <<ml_instance, mlCreated>>
    /\ instance_lock' = 0
    /\ ldPc' = [ldPc EXCEPT ![t] = "data_service"]
    /\ LoadUnchanged(t, {"ml_instance", "instance_lock"})

\* get_data_service, the test (data_service.py line 451)
DataServiceCheck(t) ==
    /\ ldPc[t] = "data_service"
    /\ ldPc' = [ldPc EXCEPT ![t] = IF data_service_instance = 0
                                   THEN "data_service_new"
                                   ELSE "data_service_return"]
    /\ LoadUnchanged(t, {})

\* the construction and the assignment (line 453)
DataServiceCreate(t) ==
    /\ ldPc[t] = "data_service_new"
    /\ dsCreated' = dsCreated + 1
    /\ data_service_instance' = dsCreated + 1
    /\ ldPc' = [ldPc EXCEPT ![t] = "data_service_return"]
    /\ LoadUnchanged(t, {"data_service"})

\* return _data_service_instance (line 455)
DataServiceReturn(t) ==
    /\ ldPc[t] = "data_service_return"
    /\ dsLocal' = [dsLocal EXCEPT ![t] = data_service_instance]
    /\ ldPc' = [ldPc EXCEPT ![t] = "dataset_1"]
    /\ LoadUnchanged(t, {"dsLocal"})

\* self._load_dataset() through lru_cache(maxsize=1), keyed by self (lines
\* 130-161): the request calls it for its window and for the city name
LoadDatasetCall(t) ==
    /\ ldPc[t] \in {"dataset_1", "dataset_2"}
    /\ IF lru_entry = dsLocal[t]
       THEN UNCHANGED <<lru_entry, datasetReads>>
       ELSE /\ datasetReads' = datasetReads + 1
            /\ lru_entry' = dsLocal[t]
    /\ ldPc' = [ldPc EXCEPT ![t] = IF ldPc[t] = "dataset_1" THEN "dataset_2"
                                   ELSE "artifacts"]
    /\ LoadUnchanged(t, {"dataset"})

\* _load_artifacts, the unlocked test (ml_service.py line 160)
ArtifactsCheck(t) ==
    /\ ldPc[t] = "artifacts"
    /\ ldPc' = [ldPc EXCEPT ![t] = IF is_ready THEN "end" ELSE "load_lock"]
    /\ LoadUnchanged(t, {})

\* with self._load_lock (line 163)
ArtifactsLock(t) ==
    /\ ldPc[t] = "load_lock"
    /\ load_lock = 0
    /\ load_lock' = t
    /\ ldPc' = [ldPc EXCEPT ![t] = "load_locked"]
    /\ LoadUnchanged(t, {"load_lock"})

\* the test under the lock, the loads and the release (lines 165-200)
ArtifactsLoad(t, disk) ==
    /\ ldPc[t] = "load_locked"
    /\ IF is_ready \/ disk = "missing"
       THEN UNCHANGED <<is_ready, loadLog>>
       ELSE /\ loadLog' = Append(loadLog,
                                 [by |-> t, model |-> TRUE,
                                  scaler |-> (disk = "ok"),
                                  ready_before |-> is_ready])
            /\ is_ready' = (disk = "ok")
    /\ load_lock' = 0
    /\ ldPc' = [ldPc EXCEPT ![t] = "end"]
    /\ LoadUnchanged(t, {"load_lock", "artifacts"})

(***************************************************************************)
(* Properties of the singletons (checked under SpecLoad)                   *)
(***************************************************************************)

\* C22: whatever the interleaving of the first uses, at most one MLService
\* is constructed; once a load of the model and the scaler has succeeded no
\* request reads either from disk again, so at most one load succeeds and
\* none starts with is_ready set; and the dataset is read from disk at most
\* once.
C22_LoadedOnce ==
    /\ mlCreated <= 1
    /\ \A i \in DOMAIN loadLog : ~loadLog[i].ready_before
    /\ Cardinality({i \in DOMAIN loadLog : loadLog[i].scaler}) <= 1
    /\ datasetReads <= 1

(***************************************************************************)
(* Concurrent requests for one cache key                                   *)
(***************************************************************************)
VARIABLES
    rcEndpoint,     \* what the requests call: "data" for
                    \* DataService.get_historical_data, "dashboard" for
                    \* get_dashboard
    rcPc,           \* per request, its position
    rcPayload,      \* per request, the value it returns
    rcEntry,        \* Redis: the entry under the key of the requests
    rcWrites        \* the writes Redis took, in order: by whom, what

raceVars == <<rcEndpoint, rcPc, rcPayload, rcEntry, rcWrites>>

\* the region and the window of the requests, and the static dataset
RaceGeocode == GeoCuritiba
RaceWeeks == 2
RaceCsvFile == RowsOfRegion(RaceGeocode, RaceWeeks)
RaceCityId == "4106902"

\* pickle.dumps / json.dumps of the value a request stores
RaceEncode(endpoint, payload) ==
    IF endpoint = "data" THEN ToPickle(payload.df) ELSE JsonDumps(payload)

\* pickle.loads / json.loads of an entry
RaceDecode(endpoint, entry) ==
    IF endpoint = "data" THEN [tier |-> "cache", df |-> ReadPickle(entry)]
    ELSE JsonLoads(entry)

\* get_historical_data past a cache miss (data_service.py lines 367-380)
RaceHistoricalData(resp) ==
    LET api_data == FetchFromApi(resp, RaceWeeks)
        csv_data == GetFromCsv(LoadDataset(RaceCsvFile), "geocodigo",
                               RaceGeocode, RaceWeeks)
    IN  IF api_data # NoValue /\ Len(api_data.df) >= RaceWeeks
        THEN [tier |-> "api", df |-> api_data.df]
        ELSE [tier |-> "csv", df |-> csv_data.df]

\* get_dashboard past a cache miss (dashboard.py lines 99-171): the
\* climate, the heuristic prediction, the generated history
RaceDashboard(weather_data, draws) ==
    LET prediction ==
            GetFallbackPrediction(
                weather_data.value.temperatura_atual.value, 0, 0)
    IN  AssembleResponse(RaceCityId, CityLookup(RaceCityId).city_name,
            GenerateHistoricalDataFallback(prediction.casos_estimados,
                                           weather_data, draws),
            prediction)

\* the climate a request is given: the upstream's or the fallback's
RaceWeather ==
    {FallbackWeather,
     Snapshot(180, 160, 200, 650, "céu limpo", "01d", "OpenWeatherMap")}

RaceIdle ==
    /\ rcEndpoint = "data"
    /\ rcPc = [r \in Threads |-> "new"]
    /\ rcPayload = [r \in Threads |-> NoValue]
    /\ rcEntry = NoValue
    /\ rcWrites = <<>>

\* the requests have arrived, the key is not in Redis
RaceInit ==
    /\ rcEndpoint \in {"data", "dashboard"}
    /\ rcPc = [r \in Threads |-> "new"]
    /\ rcPayload = [r \in Threads |-> NoValue]
    /\ rcEntry = NoValue
    /\ rcWrites = <<>>

\* the cache lookup (data_service.py lines 362-365, dashboard.py lines
\* 85-88): a hit is returned
RaceLookup(r) ==
    /\ rcPc[r] = "new"
    /\ IF rcEntry # NoValue
       THEN /\ rcPayload' =
                   [rcPayload EXCEPT ![r] = RaceDecode(rcEndpoint, rcEntry)]
            /\ rcPc' = [rcPc EXCEPT ![r] = "done"]
       ELSE /\ rcPc' = [rcPc EXCEPT ![r] = "compute"]
            /\ UNCHANGED rcPayload
    /\ UNCHANGED <<rcEndpoint, rcEntry, rcWrites>>

\* the value is computed from what the upstreams answer this request
RaceCompute(r, resp, weather_data, draws) ==
    /\ rcPc[r] = "compute"
    /\ rcPayload' =
           [rcPayload EXCEPT ![r] =
               IF rcEndpoint = "data" THEN RaceHistoricalData(resp)
               ELSE RaceDashboard(weather_data, draws)]
    /\ rcPc' = [rcPc EXCEPT ![r] = "write"]
    /\ UNCHANGED <<rcEndpoint, rcEntry, rcWrites>>

\* setex of the encoded value (_set_cache, set_dashboard_data), then the
\* return
RaceWrite(r) ==
    /\ rcPc[r] = "write"
    /\ rcEntry' = RaceEncode(rcEndpoint, rcPayload[r])
    /\ rcWrites' = Append(rcWrites, [by |-> r, payload |-> rcPayload[r]])
    /\ rcPc' = [rcPc EXCEPT ![r] = "done"]
    /\ UNCHANGED <<rcEndpoint, rcPayload>>

(***************************************************************************)
(* Properties of concurrent requests (checked under SpecRace)              *)
(***************************************************************************)

\* C23: when two requests for one key both missed, both computed and both
\* wrote, the entry is the whole value of the request that wrote last, and
\* it is the value of either request: the two computed the same.
C23_RacingWritesAgree ==
    ((\A r \in Threads : rcPc[r] = "done") /\ Len(rcWrites) = 2) =>
        /\ rcEntry = RaceEncode(rcEndpoint, rcWrites[2].payload)
        /\ \A r \in Threads :
               rcEntry = RaceEncode(rcEndpoint, rcPayload[r])

(***************************************************************************)
(* The cache operations under failure                                      *)
(***************************************************************************)
VARIABLES
    cfConnected,    \* CacheService.is_connected
    cfClient,       \* CacheService.redis_client: "none", "open", "closed"
    cfDataClient,   \* DataService.redis_client is set
    cfEntries,      \* per service, the entry under the key of the calls:
                    \* "absent", "valid", or "corrupt" (not decodable)
    cfCall          \* the operation that ended last, with its outcome

faultVars == <<cfConnected, cfClient, cfDataClient, cfEntries, cfCall>>

CacheOps ==
    {"_get_from_cache", "_set_cache", "connect", "disconnect",
     "get_dashboard_data", "set_dashboard_data", "delete", "exists",
     "get_ttl"}

DataServiceOps == {"_get_from_cache", "_set_cache"}

\* what the Redis client does when it is called: it answers, or it raises
\* (the server refuses, the socket times out, the connection is gone, the
\* event loop of the client is closed)
BackendFaults ==
    {"none", "ResponseError", "TimeoutError", "ConnectionError",
     "RuntimeError"}

\* the argument of the call: a value json.dumps / to_pickle takes and a URL
\* from_url takes, or one they reject
CallArguments == {"accepted", "rejected"}

\* the service an operation belongs to
ServiceOf(op) == IF op \in DataServiceOps THEN "data" ELSE "dashboard"

\* the guard at the head of the operation: TRUE when it returns at once
ReturnsEarly(op, connected, client_state, data_client) ==
    CASE op \in DataServiceOps -> ~data_client
      [] op = "connect" -> FALSE
      [] op = "disconnect" -> client_state = "none"
      [] OTHER -> ~connected \/ client_state = "none"

\* the value of the early return and of the except clauses
MissValue(op) ==
    IF op \in {"set_dashboard_data", "delete", "exists"}
    THEN [value |-> FALSE]
    ELSE NoValue

\* the body of the try statement: the value it returns, or the exception
\* that leaves it
TryBody(op, entry, fault, argument) ==
    CASE op \in {"set_dashboard_data", "_set_cache"}
             /\ argument = "rejected" ->
             [exc |-> "TypeError"]
      [] op = "connect" /\ argument = "rejected" ->
             [exc |-> "ValueError"]
      [] fault # "none" -> [exc |-> fault]
      [] op \in {"get_dashboard_data", "_get_from_cache"} ->
             IF entry = "absent" THEN [returned |-> NoValue]
             ELSE IF entry = "corrupt"
             THEN [exc |-> IF op = "_get_from_cache" THEN "UnpicklingError"
                           ELSE "JSONDecodeError"]
             ELSE [returned |-> [value |-> "payload"]]
      [] op \in {"set_dashboard_data", "delete"} ->
             [returned |-> [value |-> TRUE]]
      [] op = "exists" -> [returned |-> [value |-> entry # "absent"]]
      [] op = "get_ttl" ->
             [returned |-> [value |-> IF entry = "absent" THEN -2
                                      ELSE DASHBOARD_TTL]]
      [] OTHER -> [returned |-> NoValue]

\* mutant: every operation catches the errors of Redis and nothing else
ExceptClauses_RedisOnly(op) == <<"RedisError">>

\* the except clauses of the operation, in order
ExceptClauses(op) ==
    CASE op = "connect" -> <<"RedisError", "Exception">>
      [] op = "get_dashboard_data" ->
             <<"RedisError", "JSONDecodeError", "Exception">>
      [] op = "set_dashboard_data" ->
             <<"RedisError", "TypeError", "ValueError", "Exception">>
      [] OTHER -> <<"Exception">>

\* the operation as its caller sees it
CacheOperation(op, connected, client_state, data_client, entry, fault, argument) ==
    IF ReturnsEarly(op, connected, client_state, data_client)
    THEN [kind |-> "return", value |-> MissValue(op), reached |-> FALSE]
    ELSE LET body == TryBody(op, entry, fault, argument)
         IN  IF "exc" \notin DOMAIN body
             THEN [kind |-> "return", value |-> body.returned,
                   reached |-> TRUE]
             ELSE IF Catches(ExceptClauses(op), body.exc)
             THEN [kind |-> "return", value |-> MissValue(op),
                   reached |-> TRUE, caught |-> body.exc]
             ELSE [kind |-> "raise", error |-> body.exc, reached |-> TRUE]

NoFaultCall == [op |-> "none"]

FaultIdle ==
    /\ cfConnected = FALSE
    /\ cfClient = "none"
    /\ cfDataClient = FALSE
    /\ cfEntries = [s \in {"data", "dashboard"} |-> "absent"]
    /\ cfCall = NoFaultCall

\* the services as constructed: CacheService never connected, DataService
\* with or without a Redis client; what Redis holds is not known
FaultInit ==
    /\ cfConnected = FALSE
    /\ cfClient = "none"
    /\ cfDataClient \in BOOLEAN
    /\ cfEntries \in [{"data", "dashboard"} -> {"absent", "valid", "corrupt"}]
    /\ cfCall = NoFaultCall

\* one cache operation, from the call to the return or the raise
CacheCall(op, fault, argument) ==
    LET entry == cfEntries[ServiceOf(op)]
        out == CacheOperation(op, cfConnected, cfClient, cfDataClient,
                              entry, fault, argument)
        body_ok == out.kind = "return" /\ out.reached
                       /\ "caught" \notin DOMAIN out
    IN  /\ cfCall' = [op |-> op, fault |-> fault, argument |-> argument,
                      connected |-> cfConnected, client |-> cfClient,
                      entry |-> entry, outcome |-> out]
        /\ cfConnected' =
               IF op = "connect" THEN body_ok ELSE cfConnected
        /\ cfClient' =
               CASE op = "connect" /\ argument = "accepted" -> "open"
                 [] op = "disconnect" /\ out.reached -> "closed"
                 [] OTHER -> cfClient
        /\ cfEntries' =
               CASE body_ok /\ op \in {"set_dashboard_data", "_set_cache"} ->
                        [cfEntries EXCEPT ![ServiceOf(op)] = "valid"]
                 [] body_ok /\ op = "delete" ->
                        [cfEntries EXCEPT ![ServiceOf(op)] = "absent"]
                 [] OTHER -> cfEntries
        /\ UNCHANGED cfDataClient

\* an entry reaches its TTL or is evicted
Vanish(service) ==
    /\ cfEntries[service] # "absent"
    /\ cfEntries' = [cfEntries EXCEPT ![service] = "absent"]
    /\ UNCHANGED <<cfConnected, cfClient, cfDataClient, cfCall>>

(***************************************************************************)
(* Properties of the cache operations under failure (SpecFaults)           *)
(***************************************************************************)

\* C25: no cache operation raises, whatever the connection state (never
\* connected, connect failed, closed by disconnect), whatever the backend
\* does during the call and whatever the entry (absent, not decodable).
\* An operation that could not use Redis (not connected, or the call
\* failed) returns its miss value, None or False, and a lookup of an entry
\* that is gone returns None (False for exists).
C25_CacheNeverRaises ==
    cfCall # NoFaultCall =>
        LET out == cfCall.outcome
        IN  /\ out.kind = "return"
            /\ (~out.reached \/ "caught" \in DOMAIN out) =>
                   out.value = MissValue(cfCall.op)
            /\ (cfCall.entry = "absent"
                    /\ cfCall.op \in {"get_dashboard_data", "_get_from_cache",
                                      "exists"}) =>
                   out.value = MissValue(cfCall.op)
            /\ cfCall.op \in {"connect", "disconnect", "_set_cache"} =>
                   out.value = NoValue

\* C25 witness: after disconnect, with is_connected still set, a lookup on
\* the closed client fails with an error that is not a RedisError and
\* returns None.
C25_Witness ==
    /\ cfCall # NoFaultCall
    /\ cfCall.op = "get_dashboard_data"
    /\ cfCall.connected /\ cfCall.client = "closed"
    /\ cfCall.fault = "RuntimeError"
    /\ cfCall.outcome.kind = "return"
    /\ cfCall.outcome.value = NoValue

(***************************************************************************)
(* InfoDengueService                                                       *)
(***************************************************************************)
VARIABLES
    idPc,           \* position of the running get_historical_data call
    idArgs,         \* its arguments, and the day it runs on
    idParams,       \* the week range of the request it sends
    idAnswer,       \* what the API answered
    idOutcome       \* what the call returned or raised

infoVars == <<idPc, idArgs, idParams, idAnswer, idOutcome>>

\* the weeks a caller asks for: get_alert_level 1, get_dashboard 5
InfoWeeks == {1, 3, 5}

\* today: the weekday of 1 January (Monday 0 .. Sunday 6) and the number of
\* days since 1 January
Weekdays == 0..6
DaysOfYear == {0, 1, 5, 6, 7, 12, 13, 14, 20, 27, 28, 34, 35, 200, 365}

\* the methods CacheService defines (cache_service.py lines 51-244)
CacheServiceMethods ==
    {"connect", "disconnect", "get_dashboard_data", "set_dashboard_data",
     "delete", "exists", "get_ttl"}

\* random.uniform(0.7, 1.3) of the passes of _generate_fallback_data, in
\* hundredths
JitterDraws ==
    {[i \in 1..5 |-> 70], [i \in 1..5 |-> 130], <<100, 73, 127, 99, 107>>}

\* _get_epiweek (lines 301-329): date - first_sunday in days, floor-divided
GetEpiweek(jan_1_weekday, day_of_year) ==
    LET days_to_sunday == (6 - jan_1_weekday) % 7
        delta == day_of_year - days_to_sunday
        epiweek == (delta \div 7) + 1
    IN  Max(1, Min(53, epiweek))

\* mutant: the start week is not held at 1
EpiweekRange_NoClamp(current_epiweek, weeks_asked) ==
    LET start_epiweek == current_epiweek - weeks_asked + 1
    IN  IF start_epiweek <= 0
        THEN [ew_start |-> 52 + start_epiweek, ew_end |-> current_epiweek,
              ey_start |-> -1, ey_end |-> 0, moved |-> TRUE]
        ELSE [ew_start |-> start_epiweek, ew_end |-> current_epiweek,
              ey_start |-> 0, ey_end |-> 0, moved |-> FALSE]

\* step 2 (lines 100-111): years are counted from the current one
EpiweekRange(current_epiweek, weeks_asked) ==
    LET start_epiweek == Max(1, current_epiweek - weeks_asked + 1)
    IN  IF start_epiweek <= 0
        THEN [ew_start |-> 52 + start_epiweek, ew_end |-> current_epiweek,
              ey_start |-> -1, ey_end |-> 0, moved |-> TRUE]
        ELSE [ew_start |-> start_epiweek, ew_end |-> current_epiweek,
              ey_start |-> 0, ey_end |-> 0, moved |-> FALSE]

SyntheticTag == "Estimativa (InfoDengue indisponível)"

\* mutant: the jitter is 50% on either side
GenerateFallbackData_WideJitter(weeks_asked, draws) ==
    [k \in 1..weeks_asked |->
        LET casos == Max(0, (15 * (2 * draws[k] - 100)) \div 100)
        IN  [data |-> DateText(7 * (weeks_asked - k)),
             casos |-> casos,
             casos_estimados |-> 10 * casos,
             nivel_alerta |-> 1,
             semana_epidemiologica |-> 0,
             fonte |-> SyntheticTag]]

\* _generate_fallback_data (lines 255-299): pass k of the loop is
\* i = k - 1, casos is max(0, int(base_casos * uniform))
GenerateFallbackData(weeks_asked, draws) ==
    [k \in 1..weeks_asked |->
        LET casos == Max(0, (15 * draws[k]) \div 100)
        IN  [data |-> DateText(7 * (weeks_asked - k)),
             casos |-> casos,
             casos_estimados |-> 10 * casos,
             nivel_alerta |-> 1,
             semana_epidemiologica |-> 0,
             fonte |-> SyntheticTag]]

\* sorted(raw_data, key=SE, reverse=True): stable, largest week first
InsertBySE(r, s) ==
    LET after == {i \in DOMAIN s : s[i].SE >= r.SE}
        n == IF after = {} THEN 0
             ELSE CHOOSE i \in after : \A j \in after : j <= i
    IN  SubSeq(s, 1, n) \o <<r>> \o SubSeq(s, n + 1, Len(s))

RECURSIVE SortBySE(_)
SortBySE(raw) ==
    IF raw = <<>> THEN <<>>
    ELSE InsertBySE(raw[Len(raw)], SortBySE(SubSeq(raw, 1, Len(raw) - 1)))

\* one row of the answer in the standard form (lines 221-243)
FormatWeek(week_data) ==
    [data |-> [from |-> "data_iniSE", SE |-> week_data.SE],
     casos |-> week_data.casos.value,
     casos_estimados |-> 10 * week_data.casos.value,
     nivel_alerta |-> 1,
     semana_epidemiologica |-> week_data.SE,
     fonte |-> "InfoDengue"]

\* _parse_infodengue_response (lines 176-253): the rows, or the exception
\* that leaves it (iterating a dict gives its keys, int(None) fails)
ParseInfodengueResponse(raw_data, max_weeks, draws) ==
    IF raw_data.json = "object" THEN [exc |-> "AttributeError"]
    ELSE LET sorted == SortBySE(raw_data.rows)
             sorted_data == SubSeq(sorted, 1, Min(Len(sorted), max_weeks))
             formatted == [k \in DOMAIN sorted_data |->
                              FormatWeek(sorted_data[k])]
             remaining == max_weeks - Len(formatted)
             completed ==
                 IF Len(formatted) < max_weeks
                 THEN formatted \o GenerateFallbackData(remaining, draws)
                 ELSE formatted
         IN  IF \E k \in DOMAIN sorted_data : sorted_data[k].casos = NoValue
             THEN [exc |-> "TypeError"]
             ELSE [data |-> SubSeq(completed, 1,
                                   Min(Len(completed), max_weeks))]

\* the answer of a week the API has data for
RawWeek(se) == [SE |-> se, casos |-> [value |-> 100 + se]]

\* the weeks of a set, in the order the API lists them
RECURSIVE RawWeeks(_)
RawWeeks(S) ==
    IF S = {} THEN <<>>
    ELSE LET m == CHOOSE x \in S : \A y \in S : y <= x
         IN  Append(RawWeeks(S \ {m}), RawWeek(m))

\* what the API can answer to a request for a range: no answer in time, an
\* error status, a body that is not JSON, a JSON object, or a list with the
\* weeks it has data for, one of them possibly without a case count
InfoAnswers(params) ==
    {[kind |-> k] : k \in {"timeout", "http_error", "not_json"}}
    \cup {[kind |-> "json", raw_data |-> [json |-> "object"]]}
    \cup {[kind |-> "json",
           raw_data |-> [json |-> "array", rows |-> RawWeeks(S)]] :
             S \in SUBSET (params.ew_start..params.ew_end)}
    \cup {[kind |-> "json",
           raw_data |-> [json |-> "array",
                         rows |-> <<[SE |-> params.ew_end,
                                     casos |-> NoValue]>>]]}

\* the except clauses of get_historical_data (lines 164-172)
InfoHandlers == <<"HTTPError", "Exception">>

\* steps 3 to 5 (lines 117-172): what the try statement does with the
\* answer: the rows it returns, or the exception that leaves its body
RequestAndParse(answer, weeks_asked, use_cache, draws) ==
    CASE answer.kind = "timeout" -> [exc |-> "TimeoutException"]
      [] answer.kind = "http_error" -> [exc |-> "HTTPStatusError"]
      [] answer.kind = "not_json" -> [exc |-> "JSONDecodeError"]
      [] OTHER ->
         IF answer.raw_data.json = "array" /\ answer.raw_data.rows = <<>>
         THEN [data |-> GenerateFallbackData(weeks_asked, draws)]
         ELSE LET parsed_data ==
                      ParseInfodengueResponse(answer.raw_data, weeks_asked,
                                              draws)
              IN  IF "exc" \in DOMAIN parsed_data THEN parsed_data
                  ELSE IF use_cache /\ "set" \notin CacheServiceMethods
                  THEN [exc |-> "AttributeError"]
                  ELSE parsed_data

InfoIdle ==
    /\ idPc = "idle"
    /\ idArgs = NoValue
    /\ idParams = NoValue
    /\ idAnswer = NoValue
    /\ idOutcome = NoValue

InfoInit == InfoIdle

\* get_historical_data is entered (lines 50-88)
InfoCall(ibge_code, weeks_asked, use_cache, jan_1_weekday, day_of_year) ==
    /\ idPc = "idle"
    /\ idArgs' = [ibge_code |-> ibge_code, weeks |-> weeks_asked,
                  use_cache |-> use_cache, jan_1_weekday |-> jan_1_weekday,
                  day_of_year |-> day_of_year]
    /\ idPc' = IF use_cache THEN "cache" ELSE "request"
    /\ idParams' =
           IF use_cache THEN NoValue
           ELSE EpiweekRange(GetEpiweek(jan_1_weekday, day_of_year),
                             weeks_asked)
    /\ UNCHANGED <<idAnswer, idOutcome>>

\* step 1 (lines 87-92): cache_service.get, outside the try statement
InfoCacheLookup ==
    /\ idPc = "cache"
    /\ IF "get" \notin CacheServiceMethods
       THEN /\ idOutcome' = [kind |-> "raise", error |-> "AttributeError"]
            /\ idPc' = "done"
            /\ UNCHANGED idParams
       ELSE /\ idPc' = "request"
            /\ idParams' =
                   EpiweekRange(GetEpiweek(idArgs.jan_1_weekday,
                                           idArgs.day_of_year), idArgs.weeks)
            /\ UNCHANGED idOutcome
    /\ UNCHANGED <<idArgs, idAnswer>>

\* steps 3 to 5 and the except clauses (lines 117-172)
InfoRequest(answer, draws) ==
    /\ idPc = "request"
    /\ answer \in InfoAnswers(idParams)
    /\ idAnswer' = answer
    /\ LET result == RequestAndParse(answer, idArgs.weeks, idArgs.use_cache,
                                     draws)
       IN  idOutcome' =
               IF "exc" \notin DOMAIN result
               THEN [kind |-> "return", data |-> result.data]
               ELSE IF Catches(InfoHandlers, result.exc)
               THEN [kind |-> "return",
                     data |-> GenerateFallbackData(idArgs.weeks, draws)]
               ELSE [kind |-> "raise", error |-> result.exc]
    /\ idPc' = "done"
    /\ UNCHANGED <<idArgs, idParams>>

\* the caller takes the result
InfoFinish ==
    /\ idPc = "done"
    /\ idPc' = "idle"
    /\ idArgs' = NoValue
    /\ idParams' = NoValue
    /\ idAnswer' = NoValue
    /\ idOutcome' = NoValue

(***************************************************************************)
(* Properties of InfoDengueService (checked under SpecInfo)                *)
(***************************************************************************)

\* the rows of an answer that carries weeks with data
AnswerRows(answer) ==
    IF answer.kind = "json" /\ answer.raw_data.json = "array"
    THEN answer.raw_data.rows ELSE <<>>

IsSynthetic(row) ==
    /\ row.fonte = SyntheticTag
    /\ row.casos >= 10 /\ row.casos <= 19
    /\ row.semana_epidemiologica = 0

C27_CachedHistory ==
    (idPc = "done" /\ idArgs.use_cache) =>
        /\ idOutcome.kind = "return"
        /\ idAnswer # NoValue
        /\ AnswerRows(idAnswer) # <<>> =>
               idOutcome.data[1].fonte = "InfoDengue"

vars == <<dataVars, predVars, riskVars, forecastVars, cacheVars, weatherVars,
          dashVars,
          loadVars,
          raceVars,
          faultVars,
          infoVars>>

otherThanData ==
    <<predVars, riskVars, forecastVars, cacheVars, weatherVars, dashVars,
      loadVars,
      raceVars,
      faultVars,
      infoVars>>
otherThanPredict ==
    <<dataVars, riskVars, forecastVars, cacheVars, weatherVars, dashVars,
      loadVars,
      raceVars,
      faultVars,
      infoVars>>
otherThanRisk ==
    <<dataVars, predVars, forecastVars, cacheVars, weatherVars, dashVars,
      loadVars,
      raceVars,
      faultVars,
      infoVars>>
otherThanForecast ==
    <<dataVars, predVars, riskVars, cacheVars, weatherVars, dashVars,
      loadVars,
      raceVars,
      faultVars,
      infoVars>>
otherThanCache ==
    <<dataVars, predVars, riskVars, forecastVars, weatherVars, dashVars,
      loadVars,
      raceVars,
      faultVars,
      infoVars>>
otherThanWeather == <<dataVars, predVars, riskVars, forecastVars, dashVars,
      loadVars,
      raceVars,
      faultVars,
      infoVars>>
otherThanDashboard == <<dataVars, riskVars, forecastVars,
      loadVars,
      raceVars,
      faultVars,
      infoVars>>
otherThanRace ==
    <<dataVars, predVars, riskVars, forecastVars, cacheVars, weatherVars,
      dashVars,
      loadVars,
      faultVars,
      infoVars>>
otherThanFaults ==
    <<dataVars, predVars, riskVars, forecastVars, cacheVars, weatherVars,
      dashVars, loadVars,
      raceVars,
      infoVars>>
otherThanInfo ==
    <<dataVars, predVars, riskVars, forecastVars, cacheVars, weatherVars,
      dashVars, loadVars, raceVars,
      faultVars>>
\* everything but is_ready and the variables of the singletons
otherLoadVars == <<dataVars, predVars, riskVars, cacheVars, weatherVars, dashVars,
      fcPc, weeks_ahead, historical_data, current_data, predictions_raw,
      fcResponse, fcGeocode, fcCalls,
      raceVars,
      faultVars,
      infoVars>>

DataNext ==
    \/ \E g \in Geocodes, w \in WeeksValues :
           Call(g, w) /\ UNCHANGED otherThanData
    \/ \E e \in BOOLEAN : CacheGetDone(e) /\ UNCHANGED otherThanData
    \/ \E r \in ApiResponses : ApiDone(r) /\ UNCHANGED otherThanData
    \/ \E e \in BOOLEAN : StoreDone(e) /\ UNCHANGED otherThanData
    \/ Finish /\ UNCHANGED otherThanData
    \/ \E k \in CacheKeys : Expire(k) /\ UNCHANGED otherThanData

InitData ==
    /\ DataInit /\ PredIdle /\ RiskIdle /\ ForecastIdle /\ CacheIdle /\ DashIdle
    /\ WeatherIdle
    /\ LoadIdle
    /\ RaceIdle
    /\ FaultIdle
    /\ InfoIdle

SpecData == InitData /\ [][DataNext]_vars

\* the cache, the API and the cache write each answer or time out: a call
\* that waits for one of them is resumed.  The runs start from a dataset
\* with the geocodigo column and no row, one row or two rows of Curitiba.
InitDataLive ==
    /\ InitData
    /\ csvGeoColumn = "geocodigo"
    /\ csvFile \in {<<>>, <<[geo |-> IntOf(GeoCuritiba), data_iniSE |-> 2]>>,
                    <<[geo |-> IntOf(GeoCuritiba), data_iniSE |-> 2],
                      [geo |-> IntOf(GeoCuritiba), data_iniSE |-> 1]>>}
    /\ LoadIdle
    /\ RaceIdle
    /\ FaultIdle
    /\ InfoIdle

SpecDataLive ==
    /\ InitDataLive
    /\ [][DataNext]_vars
    /\ WF_vars(/\ \/ \E e \in BOOLEAN : CacheGetDone(e)
                  \/ \E r \in ApiResponses : ApiDone(r)
                  \/ \E e \in BOOLEAN : StoreDone(e)
               /\ UNCHANGED otherThanData)

PredictNext ==
    \/ \E ok \in BOOLEAN : LoadModel(ok) /\ UNCHANGED otherThanPredict
    \/ /\ predPc = "idle"
       /\ \E t \in Temperatures, c1 \in CaseCounts, c2 \in CaseCounts,
             out \in ModelOutputs : Predict(t, c1, c2, out)
       /\ UNCHANGED otherThanPredict
    \/ TakePrediction /\ UNCHANGED otherThanPredict

InitPredict ==
    /\ DataRest /\ PredictInit /\ RiskIdle /\ ForecastIdle /\ CacheIdle /\ DashIdle
    /\ WeatherIdle
    /\ LoadIdle
    /\ RaceIdle
    /\ FaultIdle
    /\ InfoIdle

SpecPredict == InitPredict /\ [][PredictNext]_vars

RiskNext ==
    \E casos \in 0..MaxEstimate : Classify(casos) /\ UNCHANGED otherThanRisk

InitRisk ==
    /\ DataRest /\ PredIdle /\ RiskInit /\ ForecastIdle /\ CacheIdle /\ DashIdle
    /\ WeatherIdle
    /\ LoadIdle
    /\ RaceIdle
    /\ FaultIdle
    /\ InfoIdle

SpecRisk == InitRisk /\ [][RiskNext]_vars

ForecastNext ==
    \/ /\ fcPc = "idle"
       /\ \E g \in RequestGeocodes, h \in WeeksAheadRequests,
             resp_chart \in EndpointApiResponses,
             resp_model \in EndpointApiResponses, window \in HistoryWindows :
              ForecastRequest(g, h, resp_chart, resp_model, window)
       /\ UNCHANGED otherThanForecast
    \/ /\ \E artifacts \in BOOLEAN, answer \in ModelAnswers :
              PredictNextWeek(artifacts, answer)
       /\ UNCHANGED otherThanForecast
    \/ ForecastFinish /\ UNCHANGED otherThanForecast

InitForecast ==
    /\ EndpointData
    /\ PredIdle /\ RiskIdle /\ ForecastInit /\ CacheIdle /\ WeatherIdle
    /\ DashIdle
    /\ LoadIdle
    /\ RaceIdle
    /\ FaultIdle
    /\ InfoIdle

SpecForecast == InitForecast /\ [][ForecastNext]_vars

CacheNext ==
    \/ \E result \in {"ok", "ping_failed", "no_client"} :
           Connect(result) /\ UNCHANGED otherThanCache
    \/ Disconnect /\ UNCHANGED otherThanCache
    \/ \E c \in CityIds, e \in BOOLEAN :
           GetDashboardData(c, e) /\ UNCHANGED otherThanCache
    \/ \E c \in CityIds, d \in DashboardPayloads, e \in BOOLEAN :
           SetDashboardData(c, d, DASHBOARD_TTL, e) /\ UNCHANGED otherThanCache
    \/ \E c \in CityIds, e \in BOOLEAN :
           Delete(c, e) /\ UNCHANGED otherThanCache
    \/ \E c \in CityIds, e \in BOOLEAN :
           Exists(c, e) /\ UNCHANGED otherThanCache
    \/ \E c \in CityIds, e \in BOOLEAN :
           GetTtl(c, e) /\ UNCHANGED otherThanCache
    \/ TakeCacheResult /\ UNCHANGED otherThanCache
    \/ Tick /\ UNCHANGED otherThanCache

InitCache ==
    /\ DataRest /\ PredIdle /\ RiskIdle /\ ForecastIdle /\ CacheInit /\ DashIdle
    /\ WeatherIdle
    /\ LoadIdle
    /\ RaceIdle
    /\ FaultIdle
    /\ InfoIdle

SpecCache == InitCache /\ [][CacheNext]_vars

WeatherNext ==
    \/ /\ wxPc = "idle"
       /\ \E result \in {"ok", "ping_failed", "no_client"} : Connect(result)
       /\ UNCHANGED <<otherThanWeather, weatherVars>>
    \/ /\ wxPc = "idle"
       /\ Tick
       /\ UNCHANGED <<otherThanWeather, weatherVars>>
    \/ /\ wxPc = "idle"
       /\ \E p \in Coordinates, use_cache \in BOOLEAN, read_error \in BOOLEAN,
             answer \in WeatherAnswers, write_error \in BOOLEAN :
              GetCurrentWeather(p[1], p[2], use_cache, read_error, answer,
                                write_error)
       /\ UNCHANGED otherThanWeather
    \/ TakeWeather /\ UNCHANGED otherThanWeather

InitWeather ==
    /\ DataRest /\ PredIdle /\ RiskIdle /\ ForecastIdle /\ CacheInit /\ DashIdle
    /\ WeatherInit
    /\ LoadIdle
    /\ RaceIdle
    /\ FaultIdle
    /\ InfoIdle

SpecWeather == InitWeather /\ [][WeatherNext]_vars

DashboardNext ==
    \/ /\ \E result \in {"ok", "ping_failed", "no_client"} : Connect(result)
       /\ UNCHANGED <<otherThanDashboard, predVars, weatherVars, dashVars>>
    \/ Tick /\ UNCHANGED <<otherThanDashboard, predVars, weatherVars, dashVars>>
    \/ /\ \E ok \in BOOLEAN : LoadModel(ok)
       /\ UNCHANGED <<otherThanDashboard, cacheVars, weatherVars, dashVars>>
    \/ /\ \E city_id \in RequestCityIds, redis_error \in BOOLEAN :
              DashStart(city_id, redis_error)
       /\ UNCHANGED <<otherThanDashboard, predVars, weatherVars>>
    \/ /\ \E read_error \in BOOLEAN, answer \in DashboardWeatherAnswers,
             write_error \in BOOLEAN :
              DashWeather(read_error, answer, write_error)
       /\ UNCHANGED <<otherThanDashboard, predVars>>
    \/ /\ \E out \in DashboardModelOutputs : DashPredict(out)
       /\ UNCHANGED otherThanDashboard
    \/ /\ \E draws \in DrawSequences : DashHistory(draws)
       /\ UNCHANGED otherThanDashboard
    \/ /\ \E redis_error \in BOOLEAN : DashStore(redis_error)
       /\ UNCHANGED <<otherThanDashboard, predVars, weatherVars>>
    \/ DashFinish /\ UNCHANGED <<otherThanDashboard, predVars>>

InitDashboard ==
    /\ DataRest /\ PredictInit /\ RiskIdle /\ ForecastIdle /\ CacheInit
    /\ WeatherInit /\ DashInit
    /\ LoadIdle
    /\ RaceIdle
    /\ FaultIdle
    /\ InfoIdle

SpecDashboard == InitDashboard /\ [][DashboardNext]_vars

\* the dashboard over the temperature bands, the clock standing still
ClimateNext ==
    \/ /\ \E result \in {"ok", "ping_failed", "no_client"} : Connect(result)
       /\ UNCHANGED <<otherThanDashboard, predVars, weatherVars, dashVars>>
    \/ /\ \E ok \in BOOLEAN : LoadModel(ok)
       /\ UNCHANGED <<otherThanDashboard, cacheVars, weatherVars, dashVars>>
    \/ /\ \E city_id \in RequestCityIds, redis_error \in BOOLEAN :
              DashStart(city_id, redis_error)
       /\ UNCHANGED <<otherThanDashboard, predVars, weatherVars>>
    \/ /\ \E read_error \in BOOLEAN, answer \in ClimateWeatherAnswers,
             write_error \in BOOLEAN :
              DashWeather(read_error, answer, write_error)
       /\ UNCHANGED <<otherThanDashboard, predVars>>
    \/ /\ \E out \in DashboardModelOutputs : DashPredict(out)
       /\ UNCHANGED otherThanDashboard
    \/ /\ \E draws \in DrawSequences : DashHistory(draws)
       /\ UNCHANGED otherThanDashboard
    \/ /\ \E redis_error \in BOOLEAN : DashStore(redis_error)
       /\ UNCHANGED <<otherThanDashboard, predVars, weatherVars>>
    \/ DashFinish /\ UNCHANGED <<otherThanDashboard, predVars>>

SpecClimate == InitDashboard /\ [][ClimateNext]_vars

LoadNext ==
    \/ \E t \in Threads : InstanceCheck(t) /\ UNCHANGED otherLoadVars
    \/ \E t \in Threads : InstanceLock(t) /\ UNCHANGED otherLoadVars
    \/ \E t \in Threads : InstanceCreate(t) /\ UNCHANGED otherLoadVars
    \/ \E t \in Threads : DataServiceCheck(t) /\ UNCHANGED otherLoadVars
    \/ \E t \in Threads : DataServiceCreate(t) /\ UNCHANGED otherLoadVars
    \/ \E t \in Threads : DataServiceReturn(t) /\ UNCHANGED otherLoadVars
    \/ \E t \in Threads : LoadDatasetCall(t) /\ UNCHANGED otherLoadVars
    \/ \E t \in Threads : ArtifactsCheck(t) /\ UNCHANGED otherLoadVars
    \/ \E t \in Threads : ArtifactsLock(t) /\ UNCHANGED otherLoadVars
    \/ \E t \in Threads, disk \in ArtifactStates :
           ArtifactsLoad(t, disk) /\ UNCHANGED otherLoadVars

InitLoad ==
    /\ DataRest /\ PredIdle /\ RiskIdle /\ ForecastIdle /\ CacheIdle
    /\ WeatherIdle /\ DashIdle
    /\ LoadInit
    /\ RaceIdle
    /\ FaultIdle
    /\ InfoIdle

SpecLoad == InitLoad /\ [][LoadNext]_vars

RaceNext ==
    \/ \E r \in Threads : RaceLookup(r) /\ UNCHANGED otherThanRace
    \/ \E r \in Threads, resp \in ApiResponses, weather_data \in RaceWeather,
          draws \in DrawSequences :
           RaceCompute(r, resp, weather_data, draws)
               /\ UNCHANGED otherThanRace
    \/ \E r \in Threads : RaceWrite(r) /\ UNCHANGED otherThanRace

InitRace ==
    /\ DataRest /\ PredIdle /\ RiskIdle /\ ForecastIdle /\ CacheIdle
    /\ WeatherIdle /\ DashIdle /\ LoadIdle
    /\ RaceInit
    /\ FaultIdle
    /\ InfoIdle

SpecRace == InitRace /\ [][RaceNext]_vars

FaultsNext ==
    \/ \E op \in CacheOps, fault \in BackendFaults,
          argument \in CallArguments :
           CacheCall(op, fault, argument) /\ UNCHANGED otherThanFaults
    \/ \E service \in {"data", "dashboard"} :
           Vanish(service) /\ UNCHANGED otherThanFaults

InitFaults ==
    /\ DataRest /\ PredIdle /\ RiskIdle /\ ForecastIdle /\ CacheIdle
    /\ WeatherIdle /\ DashIdle /\ LoadIdle /\ RaceIdle
    /\ FaultInit
    /\ InfoIdle

SpecFaults == InitFaults /\ [][FaultsNext]_vars

InfoNext ==
    \/ \E ibge_code \in CityIds, weeks_asked \in InfoWeeks,
          use_cache \in BOOLEAN, jan_1_weekday \in Weekdays,
          day_of_year \in DaysOfYear :
           InfoCall(ibge_code, weeks_asked, use_cache, jan_1_weekday,
                    day_of_year) /\ UNCHANGED otherThanInfo
    \/ InfoCacheLookup /\ UNCHANGED otherThanInfo
    \/ /\ idPc = "request"
       /\ \E draws \in JitterDraws, answer \in InfoAnswers(idParams) :
              InfoRequest(answer, draws) /\ UNCHANGED otherThanInfo
    \/ InfoFinish /\ UNCHANGED otherThanInfo

InitInfo ==
    /\ DataRest /\ PredIdle /\ RiskIdle /\ ForecastIdle /\ CacheIdle
    /\ WeatherIdle /\ DashIdle /\ LoadIdle /\ RaceIdle /\ FaultIdle
    /\ InfoInit

SpecInfo == InitInfo /\ [][InfoNext]_vars

====
